---- MODULE Spec2Model ----
(***************************************************************************)
(* A model of the class Noise of src/src/noise.ts: 2D gradient noise with  *)
(* a lazily filled gradient store (grad) and a value cache (cache).        *)
(*                                                                         *)
(* Numbers.  A coordinate is the rational k/Scale, held as its numerator   *)
(* k; a lattice coordinate is an integer.  A gradient vector is held as    *)
(* the pair of numerators of (cos th, sin th) over GradUnit.  A dot        *)
(* product is a numerator over Scale*GradUnit, the result of one fade of   *)
(* two such values a numerator over Scale^6*GradUnit, and a noise value a  *)
(* numerator over Scale^11*GradUnit.  All arithmetic is exact.             *)
(***************************************************************************)
EXTENDS Integers, Sequences, FiniteSets, TLC

\* ------------------------------------------------------------- bounds
\* Coordinates are multiples of 1/Scale.
Scale == 3
\* Calls of get and precomputeGradients in one run (the clears are free).
MaxOps == 3
\* The random source repeats after Period draws.
Period == 3

\* The queries (x, y) handed to get, as numerators over Scale: a lattice
\* point, the inside of a cell, and negative coordinates on either axis.
GetKeys == {<<0, 0>>, <<1, 2>>, <<-1, 0>>, <<-2, -1>>}
\* The bounds <<xMin, xMax, yMin, yMax>> handed to precomputeGradients: an
\* integer rectangle, a fractional one, an inverted x range that is empty
\* after rounding and one that is not, and an inverted y range that is empty.
PreRects ==
    { <<-Scale, 0, -Scale, 0>>, <<-1, 1, 0, 0>>,
      <<0, -Scale, 0, 0>>,      <<1, 0, 0, 1>>,
      <<0, 0, 0, -Scale>> }

\* Points with rational coordinates on the unit circle, as numerators over
\* GradUnit, by ascending angle: the values (cos th, sin th) can take.
UnitVectors ==
    << <<5, 0>>, <<4, 3>>, <<3, 4>>, <<0, 5>>, <<-3, 4>>, <<-4, 3>>,
       <<-5, 0>>, <<-4, -3>>, <<-3, -4>>, <<0, -5>>, <<3, -4>>, <<4, -3>> >>
GradUnit == UnitVectors[1][1]
\* What Math.random() returns, as the index r of the angle th = r * 2 * PI.
RandomValues == {1, 8}

VARIABLES
    grad,      \* Noise.grad: lattice point -> gradient vector
    cache,     \* Noise.cache: query key -> noise value
    rnd,       \* the random source: draw number (mod Period) -> value
    drawn,     \* how many values have been drawn from the random source
    ret,       \* what the last get returned
    lastOp,    \* the last operation: its name, arguments and what it did
    nops,      \* calls of get and precomputeGradients so far
    returned,  \* history: key -> the value get last returned for it, and how
               \* often it was computed, since the last clearGradients
    twin,      \* two further instances run through one script of operations
    asked,     \* history: the keys of the queries get was called with since
               \* the last clearCache
    callers,   \* the callers sharing the instance: who made the last call,
               \* who created which gradient, which gradients were used
    fp,        \* a computation in rounded (floating-point) arithmetic
    dom        \* the document and the SvJs objects

vars ==
    <<grad, cache, rnd, drawn, ret, lastOp, nops, returned, twin, asked,
      callers, fp, dom>>

\* ------------------------------------------------------------ helpers
Empty == [k \in {} |-> 0]

Put(f, k, v) == [j \in (DOMAIN f) \cup {k} |-> IF j = k THEN v ELSE f[j]]

Has(f, k) == k \in DOMAIN f

\* A slip: truncation toward zero (Math.trunc, x | 0) in place of Math.floor.
FloorTrunc(k) == IF k >= 0 THEN k \div Scale ELSE -((-k) \div Scale)

\* A slip: Math.floor in place of Math.ceil.
CeilAsFloor(k) == k \div Scale

\* Math.floor and Math.ceil of the coordinate k/Scale.
Floor(k) == k \div Scale

Ceil(k) == -((-k) \div Scale)

\* `${x},${y}`: number formatting is one-to-one on the coordinates modelled
\* here (no -0, no NaN), so the key is the pair itself.
CacheKey(x, y) == <<x, y>>

GradKey(vx, vy) == <<vx, vy>>

\* Math.random(): draw number i of the source.
Random(i) == rnd[i % Period]

\* Math.cos(th) and Math.sin(th) for th = r * 2 * PI, over GradUnit.
Cos(r) == UnitVectors[r + 1][1]

Sin(r) == UnitVectors[r + 1][2]

\* const th = Math.random() * 2 * Math.PI; { x: Math.cos(th), y: Math.sin(th) }
NewGradient(n) == <<Cos(Random(n)), Sin(Random(n))>>

\* A slip: the gradient is sampled on every lookup and overwrites the
\* stored one.
GridDotProductResample(st, x, y, vx, vy) ==
    LET dx == x - vx * Scale
        dy == y - vy * Scale
        gradKey == GradKey(vx, vy)
        gVec == NewGradient(st.n)
    IN  [g    |-> Put(st.g, gradKey, gVec),
         n    |-> st.n + 1,
         made |-> Append(st.made, gradKey),
         looks |-> st.looks + 1,
         val  |-> dx * gVec[1] + dy * gVec[2]]

\* A slip: a sampled gradient is used and never stored.
GridDotProductNoStore(st, x, y, vx, vy) ==
    LET dx == x - vx * Scale
        dy == y - vy * Scale
        gradKey == GradKey(vx, vy)
        present == Has(st.g, gradKey)
        gVec == IF present THEN st.g[gradKey] ELSE NewGradient(st.n)
    IN  [g    |-> st.g,
         n    |-> IF present THEN st.n ELSE st.n + 1,
         made |-> st.made,
         looks |-> st.looks + 1,
         val  |-> dx * gVec[1] + dy * gVec[2]]

\* A slip: the query itself, not its offset from the lattice point, is
\* multiplied with the gradient.
GridDotProductAbsolute(st, x, y, vx, vy) ==
    LET gradKey == GradKey(vx, vy)
        present == Has(st.g, gradKey)
        gVec == IF present THEN st.g[gradKey] ELSE NewGradient(st.n)
    IN  [g    |-> IF present THEN st.g ELSE Put(st.g, gradKey, gVec),
         n    |-> IF present THEN st.n ELSE st.n + 1,
         made |-> IF present THEN st.made ELSE Append(st.made, gradKey),
         looks |-> st.looks + 1,
         val  |-> x * gVec[1] + y * gVec[2]]

\* ------------------------------------------------------- #gridDotProduct
\* st = [g: the gradient store, n: draws so far, made: the points created,
\*       looks: the lookups of the store so far]
GridDotProduct(st, x, y, vx, vy) ==
    LET dx == x - vx * Scale
        dy == y - vy * Scale
        gradKey == GradKey(vx, vy)
        present == Has(st.g, gradKey)
        gVec == IF present THEN st.g[gradKey] ELSE NewGradient(st.n)
    IN  [g    |-> IF present THEN st.g ELSE Put(st.g, gradKey, gVec),
         n    |-> IF present THEN st.n ELSE st.n + 1,
         made |-> IF present THEN st.made ELSE Append(st.made, gradKey),
         looks |-> st.looks + 1,
         val  |-> dx * gVec[1] + dy * gVec[2]]

\* A slip: the cubic smoothstep 3x^2 - 2x^3 in place of the quintic one.
SmoothCubic(t) == t * t * (3 * Scale - 2 * t) * Scale * Scale

\* ---------------------------------------------------------------- #fade
\* s = x * x * x * (x * (x * 6 - 15) + 10) for x = t/Scale, over Scale^5.
Smooth(t) == t * t * t * (t * (t * 6 - 15 * Scale) + 10 * Scale * Scale)

\* A slip: b + s * (a - b), the interpolation run from b to a.
FadeReversed(t, a, b) == b * Scale^5 + Smooth(t) * (a - b)

\* a + s * (b - a), over Scale^5 times the denominator of a and b.
Fade(t, a, b) == a * Scale^5 + Smooth(t) * (b - a)

\* A slip: the top-row interpolation xt is cached in place of v.
NoiseGetCachesTop(g, c, n, x, y) ==
    LET cacheKey == CacheKey(x, y) IN
    IF Has(c, cacheKey)
    THEN [g |-> g, c |-> c, n |-> n, made |-> <<>>, hit |-> TRUE,
          looks |-> 0, ret |-> c[cacheKey]]
    ELSE LET xf == Floor(x)
             yf == Floor(y)
             tl == GridDotProduct([g |-> g, n |-> n, made |-> <<>>,
                                   looks |-> 0], x, y, xf, yf)
             tr == GridDotProduct(tl, x, y, xf + 1, yf)
             bl == GridDotProduct(tr, x, y, xf, yf + 1)
             br == GridDotProduct(bl, x, y, xf + 1, yf + 1)
             xt == Fade(x - xf * Scale, tl.val, tr.val)
             xb == Fade(x - xf * Scale, bl.val, br.val)
             v  == Fade(y - yf * Scale, xt, xb)
         IN  [g |-> br.g, c |-> Put(c, cacheKey, xt), n |-> br.n,
              made |-> br.made, hit |-> FALSE, looks |-> br.looks,
              ret |-> v]

\* A slip: the value cache is capped; a miss on a cache that holds two
\* entries drops them before it stores the new one.
NoiseGetEvicting(g, c, n, x, y) ==
    LET cacheKey == CacheKey(x, y) IN
    IF Has(c, cacheKey)
    THEN [g |-> g, c |-> c, n |-> n, made |-> <<>>, hit |-> TRUE,
          looks |-> 0, ret |-> c[cacheKey]]
    ELSE LET xf == Floor(x)
             yf == Floor(y)
             tl == GridDotProduct([g |-> g, n |-> n, made |-> <<>>,
                                   looks |-> 0], x, y, xf, yf)
             tr == GridDotProduct(tl, x, y, xf + 1, yf)
             bl == GridDotProduct(tr, x, y, xf, yf + 1)
             br == GridDotProduct(bl, x, y, xf + 1, yf + 1)
             xt == Fade(x - xf * Scale, tl.val, tr.val)
             xb == Fade(x - xf * Scale, bl.val, br.val)
             v  == Fade(y - yf * Scale, xt, xb)
             kept == IF Cardinality(DOMAIN c) >= 2 THEN Empty ELSE c
         IN  [g |-> br.g, c |-> Put(kept, cacheKey, v), n |-> br.n,
              made |-> br.made, hit |-> FALSE, looks |-> br.looks,
              ret |-> v]

\* A slip: the corners tr and bl change places in the interpolation.
NoiseGetTransposed(g, c, n, x, y) ==
    LET cacheKey == CacheKey(x, y) IN
    IF Has(c, cacheKey)
    THEN [g |-> g, c |-> c, n |-> n, made |-> <<>>, hit |-> TRUE,
          looks |-> 0, ret |-> c[cacheKey]]
    ELSE LET xf == Floor(x)
             yf == Floor(y)
             tl == GridDotProduct([g |-> g, n |-> n, made |-> <<>>,
                                   looks |-> 0], x, y, xf, yf)
             tr == GridDotProduct(tl, x, y, xf + 1, yf)
             bl == GridDotProduct(tr, x, y, xf, yf + 1)
             br == GridDotProduct(bl, x, y, xf + 1, yf + 1)
             xt == Fade(x - xf * Scale, tl.val, bl.val)
             xb == Fade(x - xf * Scale, tr.val, br.val)
             v  == Fade(y - yf * Scale, xt, xb)
         IN  [g |-> br.g, c |-> Put(c, cacheKey, v), n |-> br.n,
              made |-> br.made, hit |-> FALSE, looks |-> br.looks,
              ret |-> v]

\* A slip: the corner bl is looked up before the corner tr.
NoiseGetRowsSwapped(g, c, n, x, y) ==
    LET cacheKey == CacheKey(x, y) IN
    IF Has(c, cacheKey)
    THEN [g |-> g, c |-> c, n |-> n, made |-> <<>>, hit |-> TRUE,
          looks |-> 0, ret |-> c[cacheKey]]
    ELSE LET xf == Floor(x)
             yf == Floor(y)
             tl == GridDotProduct([g |-> g, n |-> n, made |-> <<>>,
                                   looks |-> 0], x, y, xf, yf)
             bl == GridDotProduct(tl, x, y, xf, yf + 1)
             tr == GridDotProduct(bl, x, y, xf + 1, yf)
             br == GridDotProduct(tr, x, y, xf + 1, yf + 1)
             xt == Fade(x - xf * Scale, tl.val, tr.val)
             xb == Fade(x - xf * Scale, bl.val, br.val)
             v  == Fade(y - yf * Scale, xt, xb)
         IN  [g |-> br.g, c |-> Put(c, cacheKey, v), n |-> br.n,
              made |-> br.made, hit |-> FALSE, looks |-> br.looks,
              ret |-> v]

\* A slip: if (this.cache[cacheKey]), so that a stored 0 counts as absent.
NoiseGetTruthy(g, c, n, x, y) ==
    LET cacheKey == CacheKey(x, y) IN
    IF Has(c, cacheKey) /\ c[cacheKey] # 0
    THEN [g |-> g, c |-> c, n |-> n, made |-> <<>>, hit |-> TRUE,
          looks |-> 0, ret |-> c[cacheKey]]
    ELSE LET xf == Floor(x)
             yf == Floor(y)
             tl == GridDotProduct([g |-> g, n |-> n, made |-> <<>>,
                                   looks |-> 0], x, y, xf, yf)
             tr == GridDotProduct(tl, x, y, xf + 1, yf)
             bl == GridDotProduct(tr, x, y, xf, yf + 1)
             br == GridDotProduct(bl, x, y, xf + 1, yf + 1)
             xt == Fade(x - xf * Scale, tl.val, tr.val)
             xb == Fade(x - xf * Scale, bl.val, br.val)
             v  == Fade(y - yf * Scale, xt, xb)
         IN  [g |-> br.g, c |-> Put(c, cacheKey, v), n |-> br.n,
              made |-> br.made, hit |-> FALSE, looks |-> br.looks,
              ret |-> v]

\* ----------------------------------------------------------------- get
NoiseGet(g, c, n, x, y) ==
    LET cacheKey == CacheKey(x, y) IN
    IF Has(c, cacheKey)
    THEN [g |-> g, c |-> c, n |-> n, made |-> <<>>, hit |-> TRUE,
          looks |-> 0, ret |-> c[cacheKey]]
    ELSE LET xf == Floor(x)
             yf == Floor(y)
             tl == GridDotProduct([g |-> g, n |-> n, made |-> <<>>,
                                   looks |-> 0], x, y, xf, yf)
             tr == GridDotProduct(tl, x, y, xf + 1, yf)
             bl == GridDotProduct(tr, x, y, xf, yf + 1)
             br == GridDotProduct(bl, x, y, xf + 1, yf + 1)
             xt == Fade(x - xf * Scale, tl.val, tr.val)
             xb == Fade(x - xf * Scale, bl.val, br.val)
             v  == Fade(y - yf * Scale, xt, xb)
         IN  [g |-> br.g, c |-> Put(c, cacheKey, v), n |-> br.n,
              made |-> br.made, hit |-> FALSE, looks |-> br.looks,
              ret |-> v]

\* A slip: the point is sampled whether or not it is already stored.
PrecomputePointAlways(st, x, y) ==
    [g    |-> Put(st.g, GradKey(x, y), NewGradient(st.n)),
     n    |-> st.n + 1,
     made |-> Append(st.made, GradKey(x, y))]

\* ------------------------------------------------- precomputeGradients
\* The body of the inner loop: if (!this.grad[key]) { ... }
PrecomputePoint(st, x, y) ==
    LET key == GradKey(x, y) IN
    IF Has(st.g, key)
    THEN st
    ELSE [g    |-> Put(st.g, key, NewGradient(st.n)),
          n    |-> st.n + 1,
          made |-> Append(st.made, key)]

\* for (let y = yStart; y <= yEnd; y++)
RECURSIVE PrecomputeColumn(_, _, _, _)
PrecomputeColumn(st, x, y, yEnd) ==
    IF y <= yEnd
    THEN PrecomputeColumn(PrecomputePoint(st, x, y), x, y + 1, yEnd)
    ELSE st

\* for (let x = xStart; x <= xEnd; x++)
RECURSIVE PrecomputeRows(_, _, _, _, _)
PrecomputeRows(st, x, xEnd, yStart, yEnd) ==
    IF x <= xEnd
    THEN PrecomputeRows(PrecomputeColumn(st, x, yStart, yEnd),
                        x + 1, xEnd, yStart, yEnd)
    ELSE st

\* A slip: inverted bounds are put in order before the loops run.
PrecomputeGradientsSorted(g, n, xMin, xMax, yMin, yMax) ==
    LET xLo == IF xMin <= xMax THEN xMin ELSE xMax
        xHi == IF xMin <= xMax THEN xMax ELSE xMin
        yLo == IF yMin <= yMax THEN yMin ELSE yMax
        yHi == IF yMin <= yMax THEN yMax ELSE yMin
    IN  PrecomputeRows([g |-> g, n |-> n, made |-> <<>>],
                       Floor(xLo), Ceil(xHi), Floor(yLo), Ceil(yHi))

\* A slip: precomputeGradients starts from an empty store (this.grad = {}).
PrecomputeGradientsFresh(g, n, xMin, xMax, yMin, yMax) ==
    PrecomputeRows([g |-> Empty, n |-> n, made |-> <<>>],
                   Floor(xMin), Ceil(xMax), Floor(yMin), Ceil(yMax))

PrecomputeGradients(g, n, xMin, xMax, yMin, yMax) ==
    LET xStart == Floor(xMin)
        xEnd   == Ceil(xMax)
        yStart == Floor(yMin)
        yEnd   == Ceil(yMax)
    IN  PrecomputeRows([g |-> g, n |-> n, made |-> <<>>],
                       xStart, xEnd, yStart, yEnd)

\* -------------------------------------------------------------- history
\* The entry of `returned` after get returned v for a key: n counts the
\* times the value was computed from the gradients (a cache miss).
Returned(h, key, v, hit) ==
    LET was == IF Has(h, key) THEN h[key].n ELSE 0
        now == IF hit THEN was ELSE IF was < 2 THEN was + 1 ELSE 2
    IN  Put(h, key, [v |-> v, n |-> now])

\* ------------------------------------------------------ two instances
\* The operations of a script: each instance of the pair performs them in
\* order, at its own pace.
TwinOps ==
    { [op |-> "get", args |-> <<1, 2>>],
      [op |-> "get", args |-> <<-2, -1>>],
      [op |-> "precompute", args |-> <<-Scale, 0, -Scale, 0>>],
      [op |-> "precompute", args |-> <<-1, 1, 0, 0>>],
      [op |-> "clearCache", args |-> <<>>],
      [op |-> "clearGradients", args |-> <<>>] }

Scripts == [1 .. MaxOps -> TwinOps]

\* new Noise(): both maps empty; n counts the instance's draws from its
\* random source and rets lists what its calls of get returned.
NewNoise == [grad |-> Empty, cache |-> Empty, n |-> 0, rets |-> <<>>]

TwinIdle == [script |-> <<>>, pc |-> <<1, 1>>, inst |-> <<NewNoise, NewNoise>>]

\* A slip: grad declared static, one store shared by every instance (here:
\* the store of instance 1).
FieldsStatic(t, i) == [t.inst[i] EXCEPT !.grad = t.inst[1].grad]

\* The fields of instance i: grad and cache belong to the instance.
Fields(t, i) == t.inst[i]

\* One public method of Noise applied to an instance's fields.
Apply(s, o) ==
    CASE o.op = "get" ->
           LET r == NoiseGet(s.grad, s.cache, s.n, o.args[1], o.args[2])
           IN  [grad |-> r.g, cache |-> r.c, n |-> r.n,
                rets |-> Append(s.rets, r.ret)]
      [] o.op = "precompute" ->
           LET r == PrecomputeGradients(s.grad, s.n, o.args[1], o.args[2],
                                        o.args[3], o.args[4])
           IN  [s EXCEPT !.grad = r.g, !.n = r.n]
      [] o.op = "clearCache" -> [s EXCEPT !.cache = Empty]
      [] o.op = "clearGradients" -> [s EXCEPT !.grad = Empty]

\* ------------------------------------------------------------- the state
Streams == [0 .. (Period - 1) -> RandomValues]

NoOp ==
    [op |-> "new", args |-> <<>>, hit |-> FALSE, made |-> <<>>,
     prev |-> "new", rep |-> FALSE, looks |-> 0]

\* The record of an operation: its name and arguments, whether it was a
\* cache hit, the lattice points it created in order, the name of the
\* operation before it, whether that was the same call, and the lookups of
\* the gradient store it made (set by get).
Op(name, args, hit, made) ==
    [op |-> name, args |-> args, hit |-> hit, made |-> made,
     prev |-> lastOp.op,
     rep |-> lastOp.op = name /\ lastOp.args = args,
     looks |-> 0]

\* The values of the variables a specification does not use.
CallersIdle == [last |-> 0, owner |-> Empty, used |-> Empty]

FpIdle == [op |-> "none"]

\* An empty document and no SvJs object; no call made.  seen lists what
\* the callbacks invoked for the last event found, and tracked is history:
\* the calls of trackCursor that returned.
DomIdle ==
    [nodes |-> <<>>, objs |-> <<>>, body |-> <<>>, calls |-> 0,
     last |-> [op |-> "none", obj |-> 0, args |-> <<>>, thrown |-> FALSE,
               ret |-> 0],
     seen |-> <<>>, tracked |-> {}]

Init ==
    /\ grad = Empty
    /\ cache = Empty
    /\ rnd \in Streams
    /\ drawn = 0
    /\ ret = 0
    /\ lastOp = NoOp
    /\ nops = 0
    /\ returned = Empty
    /\ twin = TwinIdle
    /\ asked = {}
    /\ callers = CallersIdle
    /\ fp = FpIdle
    /\ dom = DomIdle

Get(x, y) ==
    /\ nops < MaxOps
    /\ LET r == NoiseGet(grad, cache, drawn, x, y) IN
        /\ grad' = r.g
        /\ cache' = r.c
        /\ drawn' = r.n
        /\ ret' = r.ret
        /\ lastOp' = [Op("get", <<x, y>>, r.hit, r.made)
                          EXCEPT !.looks = r.looks]
        /\ returned' = Returned(returned, CacheKey(x, y), r.ret, r.hit)
    /\ nops' = nops + 1
    /\ asked' = asked \cup {<<x, y>>}
    /\ UNCHANGED <<rnd, twin, callers, fp, dom>>

ClearCache ==
    /\ cache' = Empty
    /\ lastOp' = Op("clearCache", <<>>, FALSE, <<>>)
    /\ asked' = {}
    /\ UNCHANGED <<grad, rnd, drawn, ret, returned, nops, twin, callers, fp, dom>>

\* A slip: clearGradients resets the value cache as well.
ClearGradientsAll ==
    /\ grad' = Empty
    /\ cache' = Empty
    /\ lastOp' = Op("clearGradients", <<>>, FALSE, <<>>)
    /\ returned' = Empty
    /\ UNCHANGED <<rnd, drawn, ret, nops, twin, asked, callers, fp, dom>>

ClearGradients ==
    /\ grad' = Empty
    /\ lastOp' = Op("clearGradients", <<>>, FALSE, <<>>)
    /\ returned' = Empty
    /\ UNCHANGED <<cache, rnd, drawn, ret, nops, twin, asked, callers, fp, dom>>

Precompute(xMin, xMax, yMin, yMax) ==
    /\ nops < MaxOps
    /\ LET r == PrecomputeGradients(grad, drawn, xMin, xMax, yMin, yMax) IN
        /\ grad' = r.g
        /\ drawn' = r.n
        /\ lastOp' = Op("precompute", <<xMin, xMax, yMin, yMax>>, FALSE,
                      r.made)
    /\ nops' = nops + 1
    /\ UNCHANGED <<cache, rnd, ret, returned, twin, asked, callers, fp, dom>>

Next ==
    \/ \E k \in GetKeys : Get(k[1], k[2])
    \/ ClearCache
    \/ ClearGradients
    \/ \E r \in PreRects : Precompute(r[1], r[2], r[3], r[4])

Spec == Init /\ [][Next]_vars

\* Two fresh instances, each with a random source producing the same
\* sequence rnd, each performing the same script.
InitTwin ==
    /\ grad = Empty
    /\ cache = Empty
    /\ rnd \in Streams
    /\ drawn = 0
    /\ ret = 0
    /\ lastOp = NoOp
    /\ nops = 0
    /\ returned = Empty
    /\ \E sc \in Scripts :
           twin = [script |-> sc, pc |-> <<1, 1>>,
                   inst |-> <<NewNoise, NewNoise>>]
    /\ asked = {}
    /\ callers = CallersIdle
    /\ fp = FpIdle
    /\ dom = DomIdle

\* Instance i performs the next operation of the script.
Run(i) ==
    /\ twin.pc[i] <= Len(twin.script)
    /\ twin' = [twin EXCEPT
                   !.inst[i] = Apply(Fields(twin, i), twin.script[twin.pc[i]]),
                   !.pc[i] = @ + 1]
    /\ UNCHANGED <<grad, cache, rnd, drawn, ret, lastOp, nops, returned,
                   asked, callers, fp, dom>>

NextTwin == \E i \in {1, 2} : Run(i)

SpecTwin == InitTwin /\ [][NextTwin]_vars

\* -------------------------------------------------- get with y omitted
\* The first coordinates get is called with when y is left out.
OmittedXs == {-1, 0}

\* A slip: the default of y is x (the diagonal) in place of 0.
ParamYDiagonal(args) == IF Len(args) >= 2 THEN args[2] ELSE args[1]

\* get(x: number, y: number = 0): the value of the parameter y in a call
\* with the argument list args.
ParamY(args) == IF Len(args) >= 2 THEN args[2] ELSE 0

\* get(x), a call that passes one argument.
GetOmitted(x) ==
    /\ nops < MaxOps
    /\ LET y == ParamY(<<x>>)
           r == NoiseGet(grad, cache, drawn, x, y)
       IN
        /\ grad' = r.g
        /\ cache' = r.c
        /\ drawn' = r.n
        /\ ret' = r.ret
        /\ lastOp' = [Op("get", <<x>>, r.hit, r.made)
                          EXCEPT !.looks = r.looks]
        /\ returned' = Returned(returned, CacheKey(x, y), r.ret, r.hit)
        /\ asked' = asked \cup {<<x, y>>}
    /\ nops' = nops + 1
    /\ UNCHANGED <<rnd, twin, callers, fp, dom>>

NextOmitted ==
    \/ Next
    \/ \E x \in OmittedXs : GetOmitted(x)

SpecOmitted == Init /\ [][NextOmitted]_vars

\* ------------------------------------------- the field, every gradient
\* Every value Math.random() can return (every angle modelled).
AllRandomValues == 0 .. (Len(UnitVectors) - 1)

FieldStreams == [0 .. (Period - 1) -> AllRandomValues]

\* Calls of get in one run of a fresh instance.
FieldOps == 1

\* Queries inside a cell (on and off its diagonal), with negative
\* coordinates, and on a lattice line x = n between two cells.
FieldKeys ==
    {<<1, 1>>, <<1, 2>>, <<-Scale - 1, -2>>, <<0, 1>>, <<-Scale, Scale - 1>>}

\* A fresh instance whose random source can produce any sequence of angles.
InitField ==
    /\ grad = Empty
    /\ cache = Empty
    /\ rnd \in FieldStreams
    /\ drawn = 0
    /\ ret = 0
    /\ lastOp = NoOp
    /\ nops = 0
    /\ returned = Empty
    /\ twin = TwinIdle
    /\ asked = {}
    /\ callers = CallersIdle
    /\ fp = FpIdle
    /\ dom = DomIdle

Sample(x, y) == nops < FieldOps /\ Get(x, y)

NextField == \E k \in FieldKeys : Sample(k[1], k[2])

SpecField == InitField /\ [][NextField]_vars

\* ------------------------------------------- the field on the lattice
\* Calls of get in one run of a fresh instance.
LatticeOps == 2

\* Queries on lattice points: neighbours, so that a later query finds some
\* of its corners stored, on both sides of the origin.
LatticeKeys == {<<0, 0>>, <<-Scale, 0>>, <<Scale, -Scale>>}

SampleLattice(x, y) == nops < LatticeOps /\ Get(x, y)

NextLattice == \E k \in LatticeKeys : SampleLattice(k[1], k[2])

SpecLattice == InitField /\ [][NextLattice]_vars

\* ------------------------------------------ callers sharing an instance
\* The callers (event handlers, callbacks) that hold the instance.  The
\* code is synchronous: a call runs to its end before the next one starts.
Callers == {1, 2}

\* What the call o does to the instance: its fields after the call, the
\* value returned (get), whether it was a cache hit and the lattice points
\* it created.
CallEffect(o) ==
    CASE o.op = "get" ->
           LET r == NoiseGet(grad, cache, drawn, o.args[1], o.args[2])
           IN  [g |-> r.g, c |-> r.c, n |-> r.n, ret |-> r.ret,
                hit |-> r.hit, made |-> r.made]
      [] o.op = "precompute" ->
           LET r == PrecomputeGradients(grad, drawn, o.args[1], o.args[2],
                                        o.args[3], o.args[4])
           IN  [g |-> r.g, c |-> cache, n |-> r.n, ret |-> ret,
                hit |-> FALSE, made |-> r.made]
      [] o.op = "clearCache" ->
           [g |-> grad, c |-> Empty, n |-> drawn, ret |-> ret,
            hit |-> FALSE, made |-> <<>>]
      [] o.op = "clearGradients" ->
           [g |-> Empty, c |-> cache, n |-> drawn, ret |-> ret,
            hit |-> FALSE, made |-> <<>>]

\* The lattice points whose gradient the call o looked up or created.
PointsUsed(o, e) ==
    CASE o.op = "get" ->
           IF e.hit THEN {}
           ELSE { GradKey(Floor(o.args[1]) + i, Floor(o.args[2]) + j) :
                      i \in {0, 1}, j \in {0, 1} }
      [] o.op = "precompute" -> { e.made[k] : k \in 1 .. Len(e.made) }
      [] OTHER -> {}

\* The bookkeeping after caller i made the call o with the effect e: the
\* points created are owned by i, and each point used has the gradient the
\* call found or put in the store added to the gradients used for it.
Noted(i, o, e) ==
    IF o.op = "clearGradients"
    THEN [last |-> i, owner |-> Empty, used |-> Empty]
    ELSE LET pts == PointsUsed(o, e)
             new == { e.made[k] : k \in 1 .. Len(e.made) }
         IN  [last  |-> i,
              owner |-> [p \in (DOMAIN callers.owner) \cup new |->
                            IF p \in new THEN i ELSE callers.owner[p]],
              used  |-> [p \in (DOMAIN callers.used) \cup pts |->
                            (IF Has(callers.used, p) THEN callers.used[p]
                             ELSE {})
                            \cup (IF p \in pts /\ Has(e.g, p) THEN {e.g[p]}
                                  ELSE {})]]

\* Caller i makes the call o, which runs to its end.
Call(i, o) ==
    /\ (o.op \in {"get", "precompute"}) => (nops < MaxOps)
    /\ LET e == CallEffect(o) IN
        /\ grad' = e.g
        /\ cache' = e.c
        /\ drawn' = e.n
        /\ ret' = e.ret
        /\ lastOp' = Op(o.op, o.args, e.hit, e.made)
        /\ returned' =
              CASE o.op = "get" ->
                     Returned(returned, CacheKey(o.args[1], o.args[2]),
                              e.ret, e.hit)
                [] o.op = "clearGradients" -> Empty
                [] OTHER -> returned
        /\ asked' =
              CASE o.op = "get" -> asked \cup {o.args}
                [] o.op = "clearCache" -> {}
                [] OTHER -> asked
        /\ callers' = Noted(i, o, e)
    /\ nops' = IF o.op \in {"get", "precompute"} THEN nops + 1 ELSE nops
    /\ UNCHANGED <<rnd, twin, fp, dom>>

NextCallers == \E i \in Callers : \E o \in TwinOps : Call(i, o)

SpecCallers == Init /\ [][NextCallers]_vars

\* ------------------------------------------------- rounded arithmetic
\* A number is an IEEE 754 double: every operation rounds its exact result
\* to the nearest number with Prec significant bits, a tie to the one with
\* an even significand (Prec is 53 in the code; exponent range and
\* fractions are not modelled: the numbers here are integers).
Prec == 4

\* The least integer that has a neighbour which is not a number.
Big == 2^Prec

\* The distance between neighbouring numbers at magnitude m.
RECURSIVE UlpAt(_)
UlpAt(m) == IF m < Big THEN 1 ELSE 2 * UlpAt(m \div 2)

\* The exact result v of an operation, rounded.
Fl(v) ==
    LET m  == IF v < 0 THEN -v ELSE v
        u  == UlpAt(m)
        lo == (m \div u) * u
        up == \/ 2 * (m - lo) > u
              \/ 2 * (m - lo) = u /\ (lo \div u) % 2 = 1
        q  == IF up THEN lo + u ELSE lo
    IN  IF v < 0 THEN -q ELSE q

\* A slip: the coefficient 16 in place of 15.
SmoothFl16(x) ==
    Fl(Fl(Fl(x * x) * x) * Fl(Fl(x * Fl(Fl(x * 6) - 16)) + 10))

\* const s = x * x * x * (x * (x * 6 - 15) + 10), as the code computes it.
SmoothFl(x) ==
    Fl(Fl(Fl(x * x) * x) * Fl(Fl(x * Fl(Fl(x * 6) - 15)) + 10))

\* return a + s * (b - a), as the code computes it.
FadeFl(x, a, b) == Fl(a + Fl(SmoothFl(x) * Fl(b - a)))

\* The arguments #fade is applied to: the two ends of the unit interval,
\* and values a and b that are numbers, small and large.
FadeXs == {0, 1}

FadeValues == {-1, 0, 1, 3, Big, Big + 2}

\* #fade(x, a, b): s and v are what the code computes, exact the value of
\* a + s (b - a) without rounding, over Scale^5.
FadeAt(x, a, b) ==
    /\ fp' = [op |-> "fade", x |-> x, a |-> a, b |-> b,
              s |-> SmoothFl(x), v |-> FadeFl(x, a, b),
              exact |-> Fade(x * Scale, a, b)]
    /\ UNCHANGED <<grad, cache, rnd, drawn, ret, lastOp, nops, returned,
                   twin, asked, callers, dom>>

NextFade == \E x \in FadeXs : \E a, b \in FadeValues : FadeAt(x, a, b)

SpecFade == Init /\ [][NextFade]_vars

\* ---------------------------------- precomputeGradients, step by step
\* The loops of precomputeGradients with their counters as the code holds
\* them, numbers that x++ and y++ round: fp.pc is "x" before the test of
\* the outer loop, "y" before the test of the inner loop, "done" after the
\* return; fp.visited lists the points the loop body ran for.
\* Loop bodies run in one call (the code sets no limit).
MaxVisits == 5

\* Bounds of a square of four points, of three points in a row with
\* fractional bounds, of an empty range, and of the single point
\* (Big, 0).
LoopRects ==
    { <<0, Scale, 0, Scale>>, <<-1, 1, 0, 0>>, <<0, -Scale, 0, 0>>,
      <<Big * Scale, Big * Scale, 0, 0>> }

LoopKeys == {<<1, 2>>, <<-1, 0>>}

\* No call of precomputeGradients is under way.
LoopIdle == fp.op = "loop" => fp.pc = "done"

\* The call, up to the first test: lines 86 to 89 and let x = xStart.
LoopCall(xMin, xMax, yMin, yMax) ==
    /\ LoopIdle
    /\ nops < MaxOps
    /\ fp' = [op |-> "loop", args |-> <<xMin, xMax, yMin, yMax>>,
              pc |-> "x",
              x |-> Floor(xMin), xEnd |-> Ceil(xMax),
              y |-> Floor(yMin), yStart |-> Floor(yMin), yEnd |-> Ceil(yMax),
              visited |-> <<>>]
    /\ lastOp' = Op("precompute", <<xMin, xMax, yMin, yMax>>, FALSE, <<>>)
    /\ nops' = nops + 1
    /\ UNCHANGED <<grad, cache, rnd, drawn, ret, returned, twin, asked,
                   callers, dom>>

\* x <= xEnd: enter the inner loop (let y = yStart) or return.
LoopTestX ==
    /\ fp.op = "loop" /\ fp.pc = "x"
    /\ fp' = IF fp.x <= fp.xEnd
             THEN [fp EXCEPT !.pc = "y", !.y = fp.yStart]
             ELSE [fp EXCEPT !.pc = "done"]
    /\ UNCHANGED <<grad, cache, rnd, drawn, ret, lastOp, nops, returned,
                   twin, asked, callers, dom>>

\* y <= yEnd holds: the body for the point (x, y), then y++.
LoopBody ==
    /\ fp.op = "loop" /\ fp.pc = "y"
    /\ fp.y <= fp.yEnd
    /\ Len(fp.visited) < MaxVisits
    /\ LET r == PrecomputePoint([g |-> grad, n |-> drawn, made |-> <<>>],
                                fp.x, fp.y)
       IN  /\ grad' = r.g
           /\ drawn' = r.n
    /\ fp' = [fp EXCEPT !.visited = Append(@, <<fp.x, fp.y>>),
                        !.y = Fl(fp.y + 1)]
    /\ UNCHANGED <<cache, rnd, ret, lastOp, nops, returned, twin, asked,
                   callers, dom>>

\* y <= yEnd fails: leave the inner loop, then x++.
LoopNextX ==
    /\ fp.op = "loop" /\ fp.pc = "y"
    /\ ~(fp.y <= fp.yEnd)
    /\ fp' = [fp EXCEPT !.pc = "x", !.x = Fl(fp.x + 1)]
    /\ UNCHANGED <<grad, cache, rnd, drawn, ret, lastOp, nops, returned,
                   twin, asked, callers, dom>>

\* A call of get, between two calls of precomputeGradients.
LoopGet(x, y) == LoopIdle /\ Get(x, y)

NextLoop ==
    \/ \E r \in LoopRects : LoopCall(r[1], r[2], r[3], r[4])
    \/ LoopTestX
    \/ LoopBody
    \/ LoopNextX
    \/ \E k \in LoopKeys : LoopGet(k[1], k[2])

SpecLoop == Init /\ [][NextLoop]_vars

\* ================================================================ SvJs
\* The class SvJs of src/src/sv.ts and the part of the DOM it works on.
\* dom.nodes lists the elements created (an element is named by its
\* position), dom.objs the SvJs objects, dom.body the children of the
\* document's body in order, dom.last what the last call was and did.
\* An element has a nodeName, children in order, attributes, event
\* listeners in order of registration and a transform list.

\* document.createElementNS(namespace, name)
NewNode(name) ==
    [name |-> name, kids |-> <<>>, attrs |-> Empty, listeners |-> <<>>,
     transform |-> <<>>, touchAction |-> ""]

\* The sequence q without the element e.
Without(q, e) == SelectSeq(q, LAMBDA k : k # e)

\* key.replace(/_/g, "-"), for the keys the class passes to set.
Prop(key) ==
    CASE key = "stop_color" -> "stop-color"
      [] key = "color_interpolation_filters" -> "color-interpolation-filters"
      [] OTHER -> key

\* String(value) for a number value.
NumStr(v) == ToString(v)

\* set(attributes) on the element n: setAttribute for each pair in order,
\* the values as strings.
RECURSIVE SetAttributes(_, _, _)
SetAttributes(d, n, pairs) ==
    IF pairs = <<>>
    THEN d
    ELSE SetAttributes(
             [d EXCEPT !.nodes[n].attrs =
                           Put(@, Prop(pairs[1][1]), pairs[1][2])],
             n, Tail(pairs))

\* new SvJs(name): the element is created and, when it is an svg, given
\* the attribute xmlns; the new object is the last of d.objs, its child
\* null (0) and its cursorX, cursorY null (the empty pair).  (#isValid
\* accepts every element name used here.)
NewSvJs(d, name) ==
    LET n  == Len(d.nodes) + 1
        d1 == [d EXCEPT !.nodes = Append(@, NewNode(name)),
                        !.objs = Append(@, [element |-> n, child |-> 0,
                                            cursor |-> <<>>])]
    IN  IF name = "svg"
        THEN SetAttributes(d1, n, << <<"xmlns", "http://www.w3.org/2000/svg">> >>)
        ELSE d1

\* The element c taken out of its parent's children (and out of the body).
Detached(d, c) ==
    [d EXCEPT !.nodes = [k \in DOMAIN d.nodes |->
                            [d.nodes[k] EXCEPT !.kids = Without(@, c)]],
              !.body = Without(@, c)]

\* parent.appendChild(c) and parent.prepend(c): c moves to its new place.
AppendChild(d, parent, c) ==
    [Detached(d, c) EXCEPT !.nodes[parent].kids = Append(@, c)]

Prepend(d, parent, c) ==
    [Detached(d, c) EXCEPT !.nodes[parent].kids = <<c>> \o @]

\* The elements of the trees rooted at the elements of q, in document
\* order (a parent before its children, children in order).
RECURSIVE Preorder(_, _)
Preorder(d, q) ==
    IF q = <<>>
    THEN <<>>
    ELSE <<q[1]>> \o Preorder(d, d.nodes[q[1]].kids) \o Preorder(d, Tail(q))

\* document.querySelector(name): the first element of the document with
\* that name, 0 (null) when there is none.
QuerySelector(d, name) ==
    LET found == SelectSeq(Preorder(d, d.body),
                           LAMBDA k : d.nodes[k].name = name)
    IN  IF found = <<>> THEN 0 ELSE found[1]

\* #defsCheck() of the object o: the defs element to use, and the DOM
\* after the check.
DefsCheck(d, o) ==
    LET existingDefs == QuerySelector(d, "defs") IN
    IF existingDefs # 0
    THEN [dom |-> d, defs |-> existingDefs]
    ELSE LET d1 == NewSvJs(d, "defs")
             defs == d1.objs[Len(d1.objs)].element
         IN  [dom |-> Prepend(d1, d.objs[o].element, defs), defs |-> defs]

\* A slip: every SVG element passes the check.
IsMainSVGAny(d, o) == d.nodes[d.objs[o].element].name \in
                          {"svg", "rect", "defs", "filter", "pattern",
                           "linearGradient", "radialGradient", "stop"}

\* #isMainSVG() passes (does not throw).
IsMainSVG(d, o) == d.nodes[d.objs[o].element].name = "svg"

\* The result of a method: the DOM after it, whether it threw, and the
\* object returned (0 when none).
Threw(d) == [dom |-> d, thrown |-> TRUE, ret |-> 0]

Returns(d, o) == [dom |-> d, thrown |-> FALSE, ret |-> o]

\* create(name) on the object o.
Create(d, o, name) ==
    LET d1 == NewSvJs(d, name)
        child == Len(d1.objs)
        d2 == [d1 EXCEPT !.objs[o].child = child]
    IN  IF name = "defs"
        THEN LET c == DefsCheck(d2, o)
             IN  Returns([c.dom EXCEPT !.objs[child].element = c.defs], child)
        ELSE Returns(AppendChild(d2, d2.objs[o].element,
                                 d2.objs[child].element), child)

\* createFilter(id) on the object o.
CreateFilter(d, o, id) ==
    IF ~IsMainSVG(d, o)
    THEN Threw(d)
    ELSE LET d1 == NewSvJs(d, "filter")
             filter == Len(d1.objs)
             d2 == SetAttributes(d1, d1.objs[filter].element,
                       << <<"id", id>>, <<"x", "-25%">>, <<"y", "-25%">>,
                          <<"width", "150%">>, <<"height", "150%">>,
                          <<"filterUnits", "userSpaceOnUse">>,
                          <<"color_interpolation_filters", "sRGB">> >>)
             c == DefsCheck(d2, o)
         IN  Returns(AppendChild(c.dom, c.defs, d2.objs[filter].element),
                     filter)

\* String((i * (100 / (n - 1))) / 100): the rational i/(n - 1), written as
\* its numerator and denominator.
Offset(i, n) == <<NumStr(i), "/", NumStr(n - 1)>>

\* for (let i = 0; i < colours.length; i += 1) { if (gradient.child) ... }
RECURSIVE GradientStops(_, _, _, _)
GradientStops(d, gradient, colours, i) ==
    IF i < Len(colours)
    THEN GradientStops(
             IF d.objs[gradient].child # 0
             THEN SetAttributes(d, d.objs[d.objs[gradient].child].element,
                      << <<"stop_color", colours[i + 1]>>,
                         <<"offset", Offset(i, Len(colours))>> >>)
             ELSE d,
             gradient, colours, i + 1)
    ELSE d

\* createGradient(id, type, colours) on the object o; rotation is left at
\* its default.
CreateGradient(d, o, id, type, colours) ==
    IF ~IsMainSVG(d, o)
    THEN Threw(d)
    ELSE LET d1 == NewSvJs(d, IF type = "linear" THEN "linearGradient"
                              ELSE "radialGradient")
             gradient == Len(d1.objs)
             d2 == SetAttributes(d1, d1.objs[gradient].element,
                                 << <<"id", id>> >>)
             d3 == IF type = "linear"
                   THEN SetAttributes(d2, d2.objs[gradient].element,
                            << <<"gradientTransform", "rotate(45)">> >>)
                   ELSE d2
             d4 == GradientStops(d3, gradient, colours, 0)
             c == DefsCheck(d4, o)
         IN  Returns(AppendChild(c.dom, c.defs, d4.objs[gradient].element),
                     gradient)

\* createPattern(id, width, height) on the object o.
CreatePattern(d, o, id, width, height) ==
    IF ~IsMainSVG(d, o)
    THEN Threw(d)
    ELSE LET d1 == NewSvJs(d, "pattern")
             pattern == Len(d1.objs)
             d2 == SetAttributes(d1, d1.objs[pattern].element,
                       << <<"id", id>>, <<"x", NumStr(0)>>,
                          <<"y", NumStr(0)>>, <<"width", NumStr(width)>>,
                          <<"height", NumStr(height)>>,
                          <<"patternUnits", "userSpaceOnUse">> >>)
             c == DefsCheck(d2, o)
         IN  Returns(AppendChild(c.dom, c.defs, d2.objs[pattern].element),
                     pattern)

\* element.addEventListener(type, callback) on the element n: a listener
\* is the event type, the function and the object the function is bound to
\* (0 for a function of the caller); one that is already registered is not
\* registered again.
AddListener(d, n, listener) ==
    IF \E k \in 1 .. Len(d.nodes[n].listeners) :
           d.nodes[n].listeners[k] = listener
    THEN d
    ELSE [d EXCEPT !.nodes[n].listeners = Append(@, listener)]

\* A slip: the callback is registered before the handlers of the class.
TrackCursorCallbackFirst(d, o, callback) ==
    IF ~IsMainSVG(d, o)
    THEN Threw(d)
    ELSE LET n == d.objs[o].element
             d0 == IF callback # "null"
                   THEN AddListener(d, n, <<"pointermove", callback, 0>>)
                   ELSE d
             d1 == [d0 EXCEPT !.nodes[n].listeners =
                                 Append(@, <<"pointermove", "track", o>>)]
         IN  Returns([d1 EXCEPT !.nodes[n].listeners =
                                   Append(@, <<"pointerleave", "release", o>>)],
                     o)

\* trackCursor(callback) on the object o: the listeners are registered in
\* this order, the two handlers of the class being new functions at every
\* call; callback is "null" or the name of a function.
TrackCursor(d, o, callback) ==
    IF ~IsMainSVG(d, o)
    THEN Threw(d)
    ELSE LET n == d.objs[o].element
             d1 == [d EXCEPT !.nodes[n].listeners =
                                Append(@, <<"pointermove", "track", o>>)]
             d2 == [d1 EXCEPT !.nodes[n].listeners =
                                 Append(@, <<"pointerleave", "release", o>>)]
         IN  Returns(IF callback # "null"
                     THEN AddListener(d2, n, <<"pointermove", callback, 0>>)
                     ELSE d2,
                     o)

\* addEventListener(type, callback) on the object o.
AddEventListener(d, o, type, callback) ==
    Returns(AddListener(d, d.objs[o].element, <<type, callback, 0>>), o)

\* addTo(document.body) on the object o.
AddTo(d, o) ==
    LET n == d.objs[o].element
    IN  Returns([Detached(d, n) EXCEPT !.body = Append(@, n)], o)

\* ------------------------------------------------------- SvJs, the state
\* Calls in one run.
MaxSvOps == 3

ElementNames == {"svg", "rect"}

ChildNames == {"rect", "defs"}

Colours == {<<"red", "blue">>, <<"red", "green", "blue">>}

\* The DOM after the call op(args) on the object o with the result r.
Called(op, o, args, r) ==
    [r.dom EXCEPT !.calls = dom.calls + 1,
                  !.last = [op |-> op, obj |-> o, args |-> args,
                            thrown |-> r.thrown, ret |-> r.ret]]

\* What a call on an SvJs object leaves alone: the Noise instances.
noiseVars ==
    <<grad, cache, rnd, drawn, ret, lastOp, nops, returned, twin, asked,
      callers, fp>>

\* The names an object can have (a call creates at most two objects), and
\* the objects there are.
ObjectIds == 1 .. (2 * MaxSvOps)

SvObjects == 1 .. Len(dom.objs)

SvNew(name) ==
    /\ dom.calls < MaxSvOps
    /\ dom' = Called("new", 0, <<name>>,
                     Returns(NewSvJs(dom, name), Len(dom.objs) + 1))
    /\ UNCHANGED noiseVars

SvAddTo(o) ==
    /\ dom.calls < MaxSvOps
    /\ o \in SvObjects
    /\ dom' = Called("addTo", o, <<>>, AddTo(dom, o))
    /\ UNCHANGED noiseVars

SvCreate(o, name) ==
    /\ dom.calls < MaxSvOps
    /\ o \in SvObjects
    /\ dom' = Called("create", o, <<name>>, Create(dom, o, name))
    /\ UNCHANGED noiseVars

SvCreateFilter(o) ==
    /\ dom.calls < MaxSvOps
    /\ o \in SvObjects
    /\ dom' = Called("createFilter", o, <<"f">>, CreateFilter(dom, o, "f"))
    /\ UNCHANGED noiseVars

SvCreateGradient(o, type, colours) ==
    /\ dom.calls < MaxSvOps
    /\ o \in SvObjects
    /\ dom' = Called("createGradient", o, <<"g", type, colours>>,
                     CreateGradient(dom, o, "g", type, colours))
    /\ UNCHANGED noiseVars

SvCreatePattern(o) ==
    /\ dom.calls < MaxSvOps
    /\ o \in SvObjects
    /\ dom' = Called("createPattern", o, <<"p", 2, 2>>,
                     CreatePattern(dom, o, "p", 2, 2))
    /\ UNCHANGED noiseVars

\* The calls of trackCursor that returned: the object, the callback, and
\* whether the callback was a pointermove listener of the element before.
Tracked(o, callback, r) ==
    IF r.thrown
    THEN dom.tracked
    ELSE dom.tracked \cup
           { [obj |-> o, callback |-> callback,
              fresh |-> \A k \in 1 .. Len(dom.nodes[dom.objs[o].element].listeners) :
                            dom.nodes[dom.objs[o].element].listeners[k]
                                # <<"pointermove", callback, 0>>] }

SvTrackCursor(o, callback) ==
    /\ dom.calls < MaxSvOps
    /\ o \in SvObjects
    /\ dom' = [Called("trackCursor", o, <<callback>>,
                      TrackCursor(dom, o, callback))
                   EXCEPT !.tracked = Tracked(o, callback,
                                              TrackCursor(dom, o, callback))]
    /\ UNCHANGED noiseVars

NextSv ==
    \/ \E name \in ElementNames : SvNew(name)
    \/ \E o \in ObjectIds : SvAddTo(o)
    \/ \E o \in ObjectIds : \E name \in ChildNames : SvCreate(o, name)
    \/ \E o \in ObjectIds : SvCreateFilter(o)
    \/ \E o \in ObjectIds : \E type \in {"linear", "radial"} :
           \E colours \in Colours : SvCreateGradient(o, type, colours)
    \/ \E o \in ObjectIds : SvCreatePattern(o)
    \/ \E o \in ObjectIds : \E callback \in {"null", "cb"} :
           SvTrackCursor(o, callback)

SpecSv == Init /\ [][NextSv]_vars

\* ============================================================== claims
\* What the claims say, stated apart from the definitions above.

\* The lattice coordinates the modelled queries and bounds can touch.
LatticeRange == -3 .. 3

\* The integer n with n <= k/Scale < n + 1.
FloorOf(k) ==
    CHOOSE n \in LatticeRange : n * Scale <= k /\ k < (n + 1) * Scale

\* The integer n with n - 1 < k/Scale <= n.
CeilOf(k) ==
    CHOOSE n \in LatticeRange : (n - 1) * Scale < k /\ k <= n * Scale

\* The four lattice points around the query (x, y).
Corners(x, y) ==
    { <<FloorOf(x), FloorOf(y)>>,     <<FloorOf(x) + 1, FloorOf(y)>>,
      <<FloorOf(x), FloorOf(y) + 1>>, <<FloorOf(x) + 1, FloorOf(y) + 1>> }

\* The lattice points (ix, iy) with floor(xMin) <= ix <= ceil(xMax) and
\* floor(yMin) <= iy <= ceil(yMax).
Rectangle(xMin, xMax, yMin, yMax) ==
    (FloorOf(xMin) .. CeilOf(xMax)) \X (FloorOf(yMin) .. CeilOf(yMax))

\* fade(t, a, b) = a + t^3 (t (6t - 15) + 10) (b - a) for t = tn/Scale, as a
\* numerator over Scale^5 times the denominator of a and b.
FadeOf(tn, a, b) ==
    a * Scale^5
    + (6 * tn^5 - 15 * Scale * tn^4 + 10 * Scale^2 * tn^3) * (b - a)

\* The dot product of (x - cx, y - cy) with the gradient stored in g at the
\* lattice point (cx, cy).
DotOf(g, x, y, cx, cy) ==
    (x - cx * Scale) * g[<<cx, cy>>][1] + (y - cy * Scale) * g[<<cx, cy>>][2]

\* v = fade(y - yf, fade(x - xf, tl, tr), fade(x - xf, bl, br)).
NoiseOf(g, x, y) ==
    LET xf == FloorOf(x)
        yf == FloorOf(y)
        tl == DotOf(g, x, y, xf, yf)
        tr == DotOf(g, x, y, xf + 1, yf)
        bl == DotOf(g, x, y, xf, yf + 1)
        br == DotOf(g, x, y, xf + 1, yf + 1)
    IN  FadeOf(y - yf * Scale,
               FadeOf(x - xf * Scale, tl, tr),
               FadeOf(x - xf * Scale, bl, br))

\* The elements of a sequence.
Range(q) == { q[i] : i \in 1 .. Len(q) }

\* The step just taken was a call of get / of precomputeGradients.
IsGet == lastOp'.op = "get"

IsPrecompute == lastOp'.op = "precompute"

\* ---------------------------------------------------------------- C1
\* C1: two consecutive get(x, y) calls with the same arguments, nothing
\* between them, return the identical value.
C1_Idempotence ==
    [][ (IsGet /\ lastOp.op = "get" /\ lastOp'.args = lastOp.args)
            => ret' = ret ]_vars

\* get was called twice in a row with the same query and returned a
\* non-zero value.
C1_Witness == lastOp.op = "get" /\ lastOp.rep /\ lastOp.hit /\ ret # 0

\* ---------------------------------------------------------------- C2
\* C2: a gradient, once created for a lattice point, is neither changed nor
\* removed by get, precomputeGradients or clearCache; only clearGradients
\* removes it.
C2_GradientPersistence ==
    [][ (lastOp'.op # "clearGradients")
            => \A p \in DOMAIN grad : Has(grad', p) /\ grad'[p] = grad[p] ]_vars

\* A call created gradients beside older ones that are still stored.
C2_Witness ==
    /\ lastOp.op \in {"get", "precompute"}
    /\ lastOp.made # <<>>
    /\ Cardinality(DOMAIN grad) > Len(lastOp.made)

\* ---------------------------------------------------------------- C3
\* C3 as stated: clearCache empties the value cache and leaves the gradient
\* store unchanged, and a get right after it, of a query that get answered
\* before with no clearGradients since, returns the value it returned then.
C3_AsStated ==
    [][ /\ (lastOp'.op = "clearCache") => (cache' = Empty /\ grad' = grad)
        /\ ( /\ IsGet
             /\ lastOp.op = "clearCache"
             /\ Has(returned, CacheKey(lastOp'.args[1], lastOp'.args[2])) )
            => ret' = returned[CacheKey(lastOp'.args[1], lastOp'.args[2])].v
      ]_vars

\* C3 as amended: clearCache empties the value cache and leaves the gradient
\* store unchanged, and every get of a query whose value was computed (on a
\* cache miss) since the last clearGradients returns that value, also after
\* clearCache.
C3_CacheIsolation ==
    [][ /\ (lastOp'.op = "clearCache") => (cache' = Empty /\ grad' = grad)
        /\ ( /\ IsGet
             /\ Has(returned, CacheKey(lastOp'.args[1], lastOp'.args[2]))
             /\ returned[CacheKey(lastOp'.args[1], lastOp'.args[2])].n >= 1 )
            => ret' = returned[CacheKey(lastOp'.args[1], lastOp'.args[2])].v
      ]_vars

\* Right after clearCache, get computed a non-zero value for the second
\* time since the last clearGradients.
C3_Witness ==
    /\ lastOp.op = "get" /\ lastOp.prev = "clearCache" /\ ~lastOp.hit
    /\ Has(returned, CacheKey(lastOp.args[1], lastOp.args[2]))
    /\ returned[CacheKey(lastOp.args[1], lastOp.args[2])].n >= 2
    /\ ret # 0

\* ---------------------------------------------------------------- C4
\* C4: clearGradients empties the gradient store and leaves the value cache
\* as it is; a get right after it of a query not in the value cache draws
\* four values from the random source, one for each of its corners, and
\* keeps the entries the cache had.
C4_GradientReset ==
    [][ /\ (lastOp'.op = "clearGradients") => (grad' = Empty /\ cache' = cache)
        /\ (IsGet /\ lastOp.op = "clearGradients" /\ ~lastOp'.hit)
            => /\ drawn' = drawn + 4
               /\ Len(lastOp'.made) = 4
               /\ Range(lastOp'.made)
                      = Corners(lastOp'.args[1], lastOp'.args[2])
               /\ \A i \in 1 .. 4 :
                      grad'[lastOp'.made[i]] = NewGradient(drawn + i - 1)
               /\ \A k \in DOMAIN cache : cache'[k] = cache[k]
      ]_vars

\* Right after clearGradients, with a value still cached, get missed the
\* cache and sampled its four corners.
C4_Witness ==
    /\ lastOp.op = "get" /\ lastOp.prev = "clearGradients" /\ ~lastOp.hit
    /\ Len(lastOp.made) = 4
    /\ Cardinality(DOMAIN cache) >= 2

\* ---------------------------------------------------------------- C5
\* C5 as stated: in every state where the gradient store is empty, get(x, y)
\* leaves it populated at exactly the four lattice points around (x, y).
C5_AsStated ==
    [][ (IsGet /\ grad = Empty)
            => DOMAIN grad' = Corners(lastOp'.args[1], lastOp'.args[2]) ]_vars

\* C5 as amended: in every state where the gradient store is empty, a
\* get(x, y) whose query is not in the value cache leaves the store populated
\* at exactly the four lattice points around (x, y); one whose query is in
\* the value cache leaves the store empty.
C5_FourCorners ==
    [][ (IsGet /\ grad = Empty)
            => DOMAIN grad' =
                 IF Has(cache, CacheKey(lastOp'.args[1], lastOp'.args[2]))
                 THEN {}
                 ELSE Corners(lastOp'.args[1], lastOp'.args[2]) ]_vars

\* get ran on an empty store, with negative coordinates, and created its
\* four corners.
C5_Witness ==
    /\ lastOp.op = "get" /\ ~lastOp.hit
    /\ lastOp.args[1] < 0 /\ lastOp.args[2] < 0
    /\ Len(lastOp.made) = 4
    /\ DOMAIN grad = Corners(lastOp.args[1], lastOp.args[2])

C7_Coverage ==
    [][ IsPrecompute
            => LET rect == Rectangle(lastOp'.args[1], lastOp'.args[2],
                                     lastOp'.args[3], lastOp'.args[4])
               IN  /\ rect \subseteq DOMAIN grad'
                   /\ (DOMAIN grad') \ (DOMAIN grad) \subseteq rect ]_vars

\* precomputeGradients ran over a rectangle with fractional bounds and
\* created all three of its points.
C7_Witness ==
    /\ lastOp.op = "precompute"
    /\ lastOp.args = <<-1, 1, 0, 0>>
    /\ Range(lastOp.made) = {<<-1, 0>>, <<0, 0>>, <<1, 0>>}

\* ---------------------------------------------------------------- C8
\* C8: precomputeGradients leaves every gradient already stored as it is,
\* and a second call with the same bounds right after the first changes
\* nothing and draws no random number.
C8_PrecomputeIdempotent ==
    [][ IsPrecompute
            => /\ \A p \in DOMAIN grad : Has(grad', p) /\ grad'[p] = grad[p]
               /\ lastOp'.rep => (grad' = grad /\ drawn' = drawn) ]_vars

\* precomputeGradients ran twice in a row with the same bounds over a
\* rectangle that is not empty.
C8_Witness ==
    /\ lastOp.op = "precompute" /\ lastOp.rep
    /\ Rectangle(lastOp.args[1], lastOp.args[2],
                 lastOp.args[3], lastOp.args[4]) # {}
    /\ lastOp.made = <<>>

C10_Interpolation ==
    [][ (IsGet /\ ~lastOp'.hit)
            => /\ ret' = NoiseOf(grad', lastOp'.args[1], lastOp'.args[2])
               /\ Has(cache', CacheKey(lastOp'.args[1], lastOp'.args[2]))
               /\ cache'[CacheKey(lastOp'.args[1], lastOp'.args[2])] = ret'
      ]_vars

\* get computed a non-zero value inside a cell, off its diagonal.
C10_Witness ==
    /\ lastOp.op = "get" /\ ~lastOp.hit
    /\ lastOp.args = <<1, 2>>
    /\ ret # 0
    /\ cache[CacheKey(1, 2)] = ret

\* --------------------------------------------------------------- C11
\* C11: get(x), with y omitted, does what get(x, 0) does from the same
\* state: it returns the same value, reads or writes the value-cache entry
\* of the key (x, 0) and no other, and leaves the same gradient store and
\* the same number of values drawn.
C11_DefaultY ==
    [][ (IsGet /\ Len(lastOp'.args) = 1)
            => LET x == lastOp'.args[1]
                   r == NoiseGet(grad, cache, drawn, x, 0)
               IN  /\ ret' = r.ret
                   /\ grad' = r.g
                   /\ drawn' = r.n
                   /\ cache' = r.c
                   /\ DOMAIN cache' = (DOMAIN cache) \cup {<<x, 0>>}
                   /\ cache'[<<x, 0>>] = ret'
                   /\ \A k \in DOMAIN cache : cache'[k] = cache[k] ]_vars

\* get(x) returned, from the value cache, the non-zero value that the call
\* before it, a get with other arguments, had stored as the only entry:
\* that call was get(x, 0).
C11_Witness ==
    /\ lastOp.op = "get" /\ Len(lastOp.args) = 1 /\ lastOp.hit
    /\ lastOp.prev = "get" /\ ~lastOp.rep
    /\ ret # 0
    /\ DOMAIN cache = {<<lastOp.args[1], 0>>}
    /\ cache[<<lastOp.args[1], 0>>] = ret

\* --------------------------------------------------------------- C12
\* C12: both maps are empty at construction; in every state the keys of the
\* value cache are exactly the queries get was called with since the last
\* clearCache; get, precomputeGradients and clearGradients neither remove
\* nor overwrite an entry of the value cache.
C12_Empty == (lastOp = NoOp) => (grad = Empty /\ cache = Empty)

C12_Lifecycle ==
    [][ /\ C12_Empty
        /\ DOMAIN cache' = asked'
        /\ (lastOp'.op \in {"get", "precompute", "clearGradients"})
            => \A k \in DOMAIN cache : Has(cache', k) /\ cache'[k] = cache[k]
      ]_vars

\* With two values cached, one of them non-zero, clearGradients and then a
\* get of a third query ran.
C12_Witness ==
    /\ lastOp.op = "get" /\ lastOp.prev = "clearGradients" /\ ~lastOp.hit
    /\ Cardinality(asked) = 3
    /\ \E k \in DOMAIN cache : k # lastOp.args /\ cache[k] # 0

\* --------------------------------------------------------------- C13
\* The noise value 1, as a numerator over Scale^11 * GradUnit.
NoiseOne == Scale^11 * GradUnit

DotWith(v, x, y, cx, cy) == (x - cx * Scale) * v[1] + (y - cy * Scale) * v[2]

\* The interpolation over the cell (xf, yf) evaluated at (x, y), a point of
\* the cell or of its border, for the gradients gtl, gtr, gbl, gbr at the
\* corners (xf, yf), (xf + 1, yf), (xf, yf + 1), (xf + 1, yf + 1).
NoiseInCell(gtl, gtr, gbl, gbr, x, y, xf, yf) ==
    FadeOf(y - yf * Scale,
           FadeOf(x - xf * Scale,
                  DotWith(gtl, x, y, xf, yf), DotWith(gtr, x, y, xf + 1, yf)),
           FadeOf(x - xf * Scale,
                  DotWith(gbl, x, y, xf, yf + 1),
                  DotWith(gbr, x, y, xf + 1, yf + 1)))

\* Three unit vectors that do not lie on one line: the value of a cell is
\* affine in each gradient, so what holds for these three at a corner holds
\* for every gradient there.
FarGradients == {UnitVectors[1], UnitVectors[4], UnitVectors[8]}

\* C14: on a lattice line x = n the value get(n, y) is both one-sided limits
\* of get(x, y).  Inside a cell get is a polynomial in x, so the limit from
\* above is the value of the polynomial of cell n at x = n, which is what
\* get(n, y) computes, and the limit from below is the value of the
\* polynomial of cell n - 1 at x = n (fade weight 1): that value equals
\* get(n, y) whatever the gradients u, w at the far corners of cell n - 1.
C14_Continuity ==
    [][ (IsGet /\ ~lastOp'.hit /\ lastOp'.args[1] % Scale = 0)
            => LET x == lastOp'.args[1]
                   y == lastOp'.args[2]
                   n == FloorOf(x)
                   yf == FloorOf(y)
               IN  /\ ret' = NoiseInCell(grad'[<<n, yf>>], grad'[<<n + 1, yf>>],
                                          grad'[<<n, yf + 1>>],
                                          grad'[<<n + 1, yf + 1>>],
                                          x, y, n, yf)
                   /\ \A u, w \in FarGradients :
                         ret' = NoiseInCell(u, grad'[<<n, yf>>],
                                            w, grad'[<<n, yf + 1>>],
                                            x, y, n - 1, yf) ]_vars

\* get computed a non-zero value on a lattice line x = n with n < 0, between
\* two lattice points.
C14_Witness ==
    /\ lastOp.op = "get" /\ ~lastOp.hit
    /\ lastOp.args[1] % Scale = 0 /\ lastOp.args[1] < 0
    /\ lastOp.args[2] % Scale # 0
    /\ ret # 0

\* --------------------------------------------------------------- C15
\* v is a number: it has at most Prec significant bits.
IsNumber(v) ==
    LET m == IF v < 0 THEN -v ELSE v
    IN  \E e \in 0 .. Prec : m % 2^e = 0 /\ m \div 2^e < 2^Prec

C16_FirstCallerWins ==
    [][ /\ \A p \in DOMAIN callers'.used :
              Has(grad', p) /\ callers'.used[p] = {grad'[p]}
        /\ (lastOp'.op # "clearGradients")
            => \A p \in DOMAIN callers.owner :
                   /\ Has(callers'.owner, p)
                   /\ callers'.owner[p] = callers.owner[p]
                   /\ Has(grad', p) /\ grad'[p] = grad[p]
        /\ (IsGet /\ ~lastOp'.hit)
            => ret' = NoiseOf(grad', lastOp'.args[1], lastOp'.args[2])
      ]_vars

\* The second caller's get missed the cache, used a gradient the first
\* caller's call had created, created another itself, and returned a
\* non-zero value.
C16_Witness ==
    /\ callers.last = 2
    /\ lastOp.op = "get" /\ ~lastOp.hit
    /\ \E p, q \in Corners(lastOp.args[1], lastOp.args[2]) :
           callers.owner[p] = 1 /\ callers.owner[q] = 2
    /\ ret # 0

\* --------------------------------------------------------------- C17
\* No element occurs twice in the sequence q.
NoRepeat(q) == \A i, j \in 1 .. Len(q) : q[i] = q[j] => i = j

\* The lattice points from floor(xMin) to ceil(xMax) by floor(yMin) to
\* ceil(yMax), for the bounds r.
RectangleOf(r) ==
    { <<ix, iy>> \in ((r[1] - Scale) \div Scale .. (r[2] + Scale) \div Scale)
                     \X ((r[3] - Scale) \div Scale .. (r[4] + Scale) \div Scale) :
        /\ ix * Scale > r[1] - Scale /\ ix * Scale < r[2] + Scale
        /\ iy * Scale > r[3] - Scale /\ iy * Scale < r[4] + Scale }

\* C17 as stated: a call of get makes at most four gradient lookups and
\* returns; a call of precomputeGradients runs its loop body for points of
\* the rectangle floor(xMin)..ceil(xMax) by floor(yMin)..ceil(yMax) only,
\* for no point twice, and when it returns it has run it for every point of
\* the rectangle.
C17_AsStated ==
    [][ /\ IsGet => NoiseGet(grad, cache, drawn, lastOp'.args[1],
                             lastOp'.args[2]).looks <= 4
        /\ (fp'.op = "loop")
            => /\ NoRepeat(fp'.visited)
               /\ Range(fp'.visited) \subseteq RectangleOf(fp'.args)
               /\ (fp'.pc = "done")
                   => Range(fp'.visited) = RectangleOf(fp'.args) ]_vars

\* ------------------------------------------------------ SvJs, moveTo
\* The numbers an attribute of the elements used here can hold.
Lengths == 0 .. 8

\* The number a geometry attribute of the element n holds, 0 when the
\* attribute is absent.
Length(d, n, prop) ==
    IF Has(d.nodes[n].attrs, prop)
    THEN CHOOSE v \in Lengths : NumStr(v) = d.nodes[n].attrs[prop]
    ELSE 0

\* The element n is rendered: it is in the tree of an svg of the document.
Rendered(d, n) ==
    \E k \in 1 .. Len(d.body) :
        /\ d.nodes[d.body[k]].name = "svg"
        /\ \E j \in 1 .. Len(Preorder(d, <<d.body[k]>>)) :
               Preorder(d, <<d.body[k]>>)[j] = n

\* getBBox() of the element n: the box of its geometry in its own user
\* space, without its transform list; the empty box at the origin when the
\* element is not rendered.
GetBBox(d, n) ==
    IF Rendered(d, n)
    THEN [x |-> Length(d, n, "x"), y |-> Length(d, n, "y"),
          width |-> Length(d, n, "width"), height |-> Length(d, n, "height")]
    ELSE [x |-> 0, y |-> 0, width |-> 0, height |-> 0]

\* getCentre() of the object o.  The centre, and every translation below,
\* is counted in halves of a user unit, so that width / 2 is exact.
GetCentre(d, o) ==
    LET bbox == GetBBox(d, d.objs[o].element)
    IN  [x |-> 2 * bbox.x + bbox.width, y |-> 2 * bbox.y + bbox.height]

\* #createTransform(): an SvJs and one more svg element are made and
\* dropped; the transform returned is the identity.
CreateTransform(d) ==
    LET d1 == NewSvJs(d, "svg")
    IN  [dom |-> [d1 EXCEPT !.nodes = Append(@, NewNode("svg"))],
         t |-> [type |-> "matrix", tx |-> 0, ty |-> 0]]

\* t.setTranslate(tx, ty), in halves.
SetTranslate(t, tx, ty) == [type |-> "translate", tx |-> tx, ty |-> ty]

\* #addTransform(transform) of the object o.
AddTransform(d, o, transform) ==
    [d EXCEPT !.nodes[d.objs[o].element].transform = Append(@, transform)]

\* moveTo(x, y) on the object o.
MoveTo(d, o, x, y) ==
    LET c == GetCentre(d, o)
        ct == CreateTransform(d)
        t == SetTranslate(ct.t, 2 * x - c.x, 2 * y - c.y)
    IN  Returns(AddTransform(ct.dom, o, t), o)

\* set({x, y, width, height}) on the object o.
SetGeometry(d, o, g) ==
    Returns(SetAttributes(d, d.objs[o].element,
                << <<"x", NumStr(g[1])>>, <<"y", NumStr(g[2])>>,
                   <<"width", NumStr(g[3])>>, <<"height", NumStr(g[4])>> >>),
            o)

\* Calls of set and moveTo in one run.
MaxMoves == 3

\* x, y, width and height of a rect.
Geometries == {<<0, 0, 2, 2>>, <<1, 2, 3, 4>>}

\* Targets of moveTo.
Targets == {<<0, 0>>, <<2, 3>>, <<4, 1>>}

\* The shapes of a drawing: the rect created in the svg (the svg is the
\* object 1).
Shapes == {2}

\* const svg = new SvJs().addTo(document.body); svg.create("rect").set(g)
Drawing(g) ==
    LET d1 == NewSvJs(DomIdle, "svg")
        d2 == AddTo(d1, 1).dom
        r == Create(d2, 1, "rect")
    IN  SetGeometry(r.dom, r.ret, g).dom

InitMove ==
    /\ grad = Empty /\ cache = Empty /\ rnd = <<>> /\ drawn = <<>>
    /\ ret = 0 /\ lastOp = NoOp /\ nops = 0 /\ returned = <<>>
    /\ twin = TwinIdle /\ asked = {} /\ callers = CallersIdle /\ fp = FpIdle
    /\ \E g \in Geometries : dom = Drawing(g)

SvSet(o, g) ==
    /\ dom.calls < MaxMoves
    /\ o \in SvObjects
    /\ dom' = Called("set", o, <<g>>, SetGeometry(dom, o, g))
    /\ UNCHANGED noiseVars

SvMoveTo(o, x, y) ==
    /\ dom.calls < MaxMoves
    /\ o \in SvObjects
    /\ dom' = Called("moveTo", o, <<x, y>>, MoveTo(dom, o, x, y))
    /\ UNCHANGED noiseVars

NextMove ==
    \/ \E o \in Shapes : \E g \in Geometries : SvSet(o, g)
    \/ \E o \in Shapes : \E p \in Targets : SvMoveTo(o, p[1], p[2])

SpecMove == InitMove /\ [][NextMove]_vars

\* -------------------------------------------------------- SvJs, events
\* Lengths on the screen are counted in halves of a unit.  Math.ceil of
\* h halves, in units.
CeilHalf(h) == -((-h) \div 2)

\* The parent of the element n, 0 when it has none.
Parent(d, n) ==
    IF \E k \in DOMAIN d.nodes : \E j \in 1 .. Len(d.nodes[k].kids) :
           d.nodes[k].kids[j] = n
    THEN CHOOSE k \in DOMAIN d.nodes : \E j \in 1 .. Len(d.nodes[k].kids) :
             d.nodes[k].kids[j] = n
    ELSE 0

\* The element n and its ancestors, from n up: the way of an event that
\* bubbles.
RECURSIVE Path(_, _)
Path(d, n) ==
    IF Parent(d, n) = 0 THEN <<n>> ELSE <<n>> \o Path(d, Parent(d, n))

\* The listeners of the element n for events of one type, in the order of
\* their registration, each with the element.
ListenersAt(d, n, type) ==
    LET of == SelectSeq(d.nodes[n].listeners, LAMBDA l : l[1] = type)
    IN  [k \in 1 .. Len(of) |-> [at |-> n, listener |-> of[k]]]

\* The listeners an event runs: those of its target, then (pointermove
\* bubbles, pointerleave does not) those of each ancestor in turn.
RECURSIVE ListenersOn(_, _, _)
ListenersOn(d, path, type) ==
    IF path = <<>>
    THEN <<>>
    ELSE ListenersAt(d, path[1], type) \o ListenersOn(d, Tail(path), type)

\* element.getScreenCTM() of the element n during the event e: null (the
\* empty pair) when the element is not rendered, else the translation the
\* layout gives it.
GetScreenCTM(d, n, e) == IF Rendered(d, n) THEN e.ctm ELSE <<>>

\* One listener runs.  st = [dom, written: the objects whose cursorX and
\* cursorY this event has set so far].  The pointermove handler of
\* trackCursor sets touchAction and, if there is a CTM, the cursor of its
\* object; the pointerleave handler sets touchAction; a function of the
\* caller is noted in dom.seen with what it finds.
Invoke(st, at, listener, e) ==
    LET d == st.dom
        o == listener[3]
    IN  CASE listener[2] = "track" ->
               LET n == d.objs[o].element
                   d1 == [d EXCEPT !.nodes[n].touchAction = "none"]
                   ctm == GetScreenCTM(d1, n, e)
               IN  IF ctm # <<>>
                   THEN [dom |-> [d1 EXCEPT !.objs[o].cursor =
                                      <<CeilHalf(e.clientX - ctm[1]),
                                        CeilHalf(e.clientY - ctm[2])>>],
                         written |-> st.written \cup {o}]
                   ELSE [st EXCEPT !.dom = d1]
          [] listener[2] = "release" ->
               [st EXCEPT !.dom.nodes[d.objs[o].element].touchAction = "auto"]
          [] OTHER ->
               [st EXCEPT !.dom.seen =
                   Append(@, [callback |-> listener[2], at |-> at,
                              touchAction |-> d.nodes[at].touchAction,
                              cursors |-> [k \in DOMAIN d.objs |->
                                              d.objs[k].cursor],
                              written |-> st.written])]

RECURSIVE RunListeners(_, _, _)
RunListeners(st, q, e) ==
    IF q = <<>>
    THEN st
    ELSE RunListeners(Invoke(st, q[1].at, q[1].listener, e), Tail(q), e)

\* The event e = [type, target, clientX, clientY, ctm] is dispatched.
Dispatch(d, e) ==
    LET path == IF e.type = "pointermove" THEN Path(d, e.target)
                ELSE <<e.target>>
    IN  RunListeners([dom |-> [d EXCEPT !.seen = <<>>], written |-> {}],
                     ListenersOn(d, path, e.type), e).dom

\* Where the pointer is, and where the layout puts the svg, in halves.
ClientPoints == {<<2, 4>>, <<5, 1>>}

ScreenCTMs == {<<0, 0>>, <<1, 2>>}

\* const svg = new SvJs(); svg.create("rect"), with the svg added to the
\* document body or not.
Sketch(attached) ==
    LET d1 == NewSvJs(DomIdle, "svg")
        d2 == IF attached THEN AddTo(d1, 1).dom ELSE d1
    IN  Create(d2, 1, "rect").dom

InitEvents ==
    /\ grad = Empty /\ cache = Empty /\ rnd = <<>> /\ drawn = <<>>
    /\ ret = 0 /\ lastOp = NoOp /\ nops = 0 /\ returned = <<>>
    /\ twin = TwinIdle /\ asked = {} /\ callers = CallersIdle /\ fp = FpIdle
    /\ \E attached \in BOOLEAN : dom = Sketch(attached)

SvAddEventListener(o, type, callback) ==
    /\ dom.calls < MaxSvOps
    /\ o \in SvObjects
    /\ dom' = Called("addEventListener", o, <<type, callback>>,
                     AddEventListener(dom, o, type, callback))
    /\ UNCHANGED noiseVars

\* The browser dispatches a pointermove at the element n.
PointerMove(n, p, ctm) ==
    /\ dom.calls < MaxSvOps
    /\ n \in DOMAIN dom.nodes
    /\ dom' = Called("pointermove", 0, <<n, p[1], p[2], ctm>>,
                     Returns(Dispatch(dom, [type |-> "pointermove",
                                            target |-> n, clientX |-> p[1],
                                            clientY |-> p[2], ctm |-> ctm]),
                             0))
    /\ UNCHANGED noiseVars

\* The browser dispatches a pointerleave at the element n.
PointerLeave(n) ==
    /\ dom.calls < MaxSvOps
    /\ n \in DOMAIN dom.nodes
    /\ dom' = Called("pointerleave", 0, <<n>>,
                     Returns(Dispatch(dom, [type |-> "pointerleave",
                                            target |-> n, clientX |-> 0,
                                            clientY |-> 0, ctm |-> <<>>]),
                             0))
    /\ UNCHANGED noiseVars

NextEvents ==
    \/ \E o \in ObjectIds : \E callback \in {"null", "cb"} :
           SvTrackCursor(o, callback)
    \/ \E o \in ObjectIds : \E callback \in {"cb"} :
           SvAddEventListener(o, "pointermove", callback)
    \/ \E n \in 1 .. (3 * MaxSvOps) : \E p \in ClientPoints : \E ctm \in ScreenCTMs :
           PointerMove(n, p, ctm)
    \/ \E n \in 1 .. (3 * MaxSvOps) : PointerLeave(n)

SpecEvents == InitEvents /\ [][NextEvents]_vars

\* --------------------------------------------------- SvJs, createCurve
\* The divisor of the control-point formula.  Every number of the path
\* data is held as its numerator over Sixth, so that the division is exact.
Sixth == 6

\* points.flat()
Flat(points) ==
    [i \in 1 .. (2 * Len(points)) |->
        points[(i + 1) \div 2][IF i % 2 = 1 THEN 1 ELSE 2]]

\* flattened[i], the index counted from 0.
At(flattened, i) == flattened[i + 1]

\* A slip: curveFactor || 1, so that a factor of 0 is replaced by 1.
ParamCurveFactorOr(args) ==
    IF Len(args) >= 2 /\ args[2] # 0 THEN args[2] ELSE 1

\* createCurve(points, curveFactor = 1): the value of the parameter
\* curveFactor in a call with the argument list args.
ParamCurveFactor(args) == IF Len(args) >= 2 THEN args[2] ELSE 1

\* The body of the loop: the segment `C ${[cp1x, cp1y, cp2x, cp2y, x2, y2]}`
\* added at the index i.
CurveSegment(flattened, i, curveFactor) ==
    LET x0 == IF i # 0 THEN At(flattened, i - 2) ELSE At(flattened, 0)
        y0 == IF i # 0 THEN At(flattened, i - 1) ELSE At(flattened, 1)
        x1 == At(flattened, i)
        y1 == At(flattened, i + 1)
        x2 == At(flattened, i + 2)
        y2 == At(flattened, i + 3)
        x3 == IF i # Len(flattened) - 4 THEN At(flattened, i + 4) ELSE x2
        y3 == IF i # Len(flattened) - 4 THEN At(flattened, i + 5) ELSE y2
        cp1x == Sixth * x1 + (x2 - x0) * curveFactor
        cp1y == Sixth * y1 + (y2 - y0) * curveFactor
        cp2x == Sixth * x2 - (x3 - x1) * curveFactor
        cp2y == Sixth * y2 - (y3 - y1) * curveFactor
    IN  <<"C", cp1x, cp1y, cp2x, cp2y, Sixth * x2, Sixth * y2>>

\* for (let i = 0; i < flattened.length - 2; i += 2) { pathData += ... }
RECURSIVE CurveLoop(_, _, _, _)
CurveLoop(flattened, curveFactor, i, pathData) ==
    IF i < Len(flattened) - 2
    THEN CurveLoop(flattened, curveFactor, i + 2,
                   Append(pathData, CurveSegment(flattened, i, curveFactor)))
    ELSE pathData

\* createCurve(points, curveFactor) on the object o.  The path data is the
\* sequence of its commands, each the letter and its numbers.
CreateCurve(d, o, points, curveFactor) ==
    LET d1 == NewSvJs(d, "path")
        path == Len(d1.objs)
        flattened == Flat(points)
        pathData == CurveLoop(flattened, curveFactor, 0,
                        << <<"M", Sixth * At(flattened, 0),
                                  Sixth * At(flattened, 1)>> >>)
        d2 == SetAttributes(d1, d1.objs[path].element,
                  << <<"d", pathData>>, <<"stroke", "#888">>,
                     <<"fill", "none">> >>)
    IN  Returns(AppendChild(d2, d2.objs[o].element, d2.objs[path].element),
                path)

\* Calls of createCurve in one run.
MaxCurves == 2

\* The argument lists of createCurve: one point, two, three, and four with
\* a turn back; curveFactor left out, 0 and 2.
CurvePoints ==
    { << <<1, 2>> >>,
      << <<0, 0>>, <<6, 3>> >>,
      << <<0, 0>>, <<6, 3>>, <<12, -6>> >>,
      << <<-3, 1>>, <<0, 0>>, <<6, 3>>, <<0, 5>> >> }

CurveArgs ==
    { <<pts>> : pts \in CurvePoints }
        \cup { <<pts, f>> : pts \in CurvePoints, f \in {0, 2} }

SvCreateCurve(o, args) ==
    /\ dom.calls < MaxCurves
    /\ o \in SvObjects
    /\ dom' = Called("createCurve", o, args,
                     CreateCurve(dom, o, args[1], ParamCurveFactor(args)))
    /\ UNCHANGED noiseVars

NextCurve == \E o \in {1, 2} : \E args \in CurveArgs : SvCreateCurve(o, args)

SpecCurve == InitEvents /\ [][NextCurve]_vars

\* ------------------------------------------------------------ Gen.random
\* The numbers handed to Gen.random and the values of Math.random() are
\* multiples of 1/Grain, held as their numerators; the result of
\* Gen.random(min, max, float) is a numerator over Grain * Grain.
Grain == 4

\* Math.round of the number k/den: the nearest integer, a half rounded up.
Round(k, den) == (2 * k + den) \div (2 * den)

\* What Math.random() returns: multiples of 1/Grain in [0, 1).
RandomQuarters == 0 .. (Grain - 1)

\* min and max: integers and fractions, on both sides of 0.
Limits == {-5, -4, 0, 1, 4, 6, 10}

\* The argument lists (min), (min, max) and (min, max, float).
RandomArgs ==
    { <<min>> : min \in Limits }
        \cup { <<min, max>> : min \in Limits, max \in Limits }
        \cup { <<min, max, float>> :
                   min \in Limits, max \in Limits, float \in BOOLEAN }

\* The arrays handed to Gen.random.
Arrays == { <<"a">>, <<"a", "b">>, <<"a", "b", "c">> }

\* const max = arg2 !== undefined ? arg2 : 1
ParamMax(args) == IF Len(args) >= 2 THEN args[2] ELSE Grain

\* const float = arg3 !== undefined ? arg3 : false
ParamFloat(args) == IF Len(args) >= 3 THEN args[3] ELSE FALSE

\* Gen.random(min, max, float) when Math.random() returns r.
GenRandom(args, r) ==
    LET min == args[1]
        max == ParamMax(args)
        float == ParamFloat(args)
        random == r * (max - min) + min * Grain
    IN  IF float \/ max - min <= Grain
        THEN random
        ELSE Round(random, Grain * Grain) * Grain * Grain

\* Gen.random(arr) when Math.random() returns r.
GenRandomArray(arr, r) == arr[Round(r * (Len(arr) - 1), Grain) + 1]

InitGen ==
    /\ grad = Empty /\ cache = Empty /\ rnd = <<>> /\ drawn = <<>>
    /\ ret = 0 /\ lastOp = NoOp /\ nops = 0 /\ returned = <<>>
    /\ twin = TwinIdle /\ asked = {} /\ callers = CallersIdle /\ fp = FpIdle
    /\ dom = DomIdle

RandomNumber(args, r) ==
    /\ fp' = [op |-> "random", args |-> args, r |-> r,
              v |-> GenRandom(args, r)]
    /\ UNCHANGED <<grad, cache, rnd, drawn, ret, lastOp, nops, returned,
                   twin, asked, callers, dom>>

RandomItem(arr, r) ==
    /\ fp' = [op |-> "randomItem", args |-> <<arr>>, r |-> r,
              v |-> GenRandomArray(arr, r)]
    /\ UNCHANGED <<grad, cache, rnd, drawn, ret, lastOp, nops, returned,
                   twin, asked, callers, dom>>

NextGen ==
    \/ \E args \in RandomArgs : \E r \in RandomQuarters : RandomNumber(args, r)
    \/ \E arr \in Arrays : \E r \in RandomQuarters : RandomItem(arr, r)

SpecGen == InitGen /\ [][NextGen]_vars

\* --------------------------------------------- SvJs, a page with an svg
\* new SvJs().addTo(document.body).createFilter("f"): a document that holds
\* an svg with a defs element.
Page ==
    LET d1 == NewSvJs(DomIdle, "svg")
        d2 == AddTo(d1, 1).dom
    IN  CreateFilter(d2, 1, "f").dom

InitPage ==
    /\ grad = Empty /\ cache = Empty /\ rnd = <<>> /\ drawn = <<>>
    /\ ret = 0 /\ lastOp = NoOp /\ nops = 0 /\ returned = <<>>
    /\ twin = TwinIdle /\ asked = {} /\ callers = CallersIdle /\ fp = FpIdle
    /\ dom = Page

SpecPage == InitPage /\ [][NextSv]_vars

\* --------------------------------------------------------------- C18
\* C18 as stated: the element createGradient(id, type, colours) returns
\* has one child per colour, the i-th (from 0, of n) a stop with the
\* colour colours[i] and the offset i/(n - 1).
C18_AsStated ==
    (dom.last.op = "createGradient" /\ ~dom.last.thrown)
        => LET gradient == dom.nodes[dom.objs[dom.last.ret].element]
               colours == dom.last.args[3]
               n == Len(colours)
           IN  /\ Len(gradient.kids) = n
               /\ \A i \in 0 .. (n - 1) :
                     LET stop == dom.nodes[gradient.kids[i + 1]]
                     IN  /\ stop.name = "stop"
                         /\ Has(stop.attrs, "stop-color")
                         /\ stop.attrs["stop-color"] = colours[i + 1]
                         /\ Has(stop.attrs, "offset")
                         /\ stop.attrs["offset"]
                                = <<ToString(i), "/", ToString(n - 1)>>

\* --------------------------------------------------------------- C19
\* The methods that may only be called on the main SVG element.
MainOnly == {"createFilter", "createGradient", "createPattern", "trackCursor"}

\* C19: createFilter, createGradient, createPattern and trackCursor called
\* on an object whose element is not an svg throw and leave every element,
\* every object and the document as they were: no element is created, no
\* child appended, no listener registered.
C19_NotMainThrows ==
    [][ ( /\ dom'.calls # dom.calls
          /\ dom'.last.op \in MainOnly
          /\ dom.nodes[dom.objs[dom'.last.obj].element].name # "svg" )
            => /\ dom'.last.thrown
               /\ dom'.nodes = dom.nodes
               /\ dom'.objs = dom.objs
               /\ dom'.body = dom.body ]_vars

\* One of the four methods threw, called on a rect that is a child of an
\* svg which has no defs element.
C19_Witness ==
    /\ dom.last.op \in MainOnly /\ dom.last.thrown
    /\ dom.nodes[dom.objs[dom.last.obj].element].name = "rect"
    /\ \E k \in DOMAIN dom.nodes :
           /\ dom.nodes[k].name = "svg"
           /\ dom.nodes[k].kids = <<dom.objs[dom.last.obj].element>>
    /\ \A k \in DOMAIN dom.nodes : dom.nodes[k].name # "defs"

\* --------------------------------------------------------------- C20
\* The centre of the element n with its transform list applied, in halves
\* of a user unit (the list holds translations only).
CentreOnScreen(d, n) ==
    LET bbox == GetBBox(d, n)
        list == d.nodes[n].transform
        moved[k \in 0 .. Len(list)] ==
            IF k = 0
            THEN <<2 * bbox.x + bbox.width, 2 * bbox.y + bbox.height>>
            ELSE <<moved[k - 1][1] + list[k].tx, moved[k - 1][2] + list[k].ty>>
    IN  moved[Len(list)]

\* C20 as stated: after a moveTo(x, y) on a rendered element, the element's
\* centre with its transform list applied is (x, y), however many moveTo
\* calls came before.
C20_AsStated ==
    (dom.last.op = "moveTo" /\ Rendered(dom, dom.objs[dom.last.obj].element))
        => CentreOnScreen(dom, dom.objs[dom.last.obj].element)
               = <<2 * dom.last.args[1], 2 * dom.last.args[2]>>

\* --------------------------------------------------------------- C23
\* C23: a get(x, y) whose key is in the value cache returns the stored
\* value, looks up and creates no gradient, draws no random number and
\* leaves the value cache and the gradient store as they were; so also when
\* the stored value is 0.
C23_HitIsPure ==
    [][ (IsGet /\ Has(cache, CacheKey(lastOp'.args[1], lastOp'.args[2])))
            => /\ ret' = cache[CacheKey(lastOp'.args[1], lastOp'.args[2])]
               /\ lastOp'.looks = 0
               /\ lastOp'.made = <<>>
               /\ drawn' = drawn
               /\ cache' = cache
               /\ grad' = grad ]_vars

\* get hit a stored 0 right after clearGradients: the store stayed empty.
C23_Witness ==
    /\ lastOp.op = "get" /\ lastOp.hit /\ lastOp.prev = "clearGradients"
    /\ Has(cache, CacheKey(lastOp.args[1], lastOp.args[2]))
    /\ cache[CacheKey(lastOp.args[1], lastOp.args[2])] = 0
    /\ ret = 0 /\ grad = Empty /\ drawn > 0

\* --------------------------------------------------------------- C27
\* C27 as stated: in every state, every value-cache entry whose four corner
\* gradients are all stored equals the interpolation of the stored
\* gradients at its key.
C27_AsStated ==
    \A k \in DOMAIN cache :
        (Corners(k[1], k[2]) \subseteq DOMAIN grad)
            => cache[k] = NoiseOf(grad, k[1], k[2])

\* C27 as amended: in every state, every value-cache entry computed since
\* the last clearGradients has its four corner gradients stored and equals
\* the interpolation of the stored gradients at its key.  (An entry computed
\* before the last clearGradients keeps its value.)
C27_Consistency ==
    \A k \in DOMAIN cache :
        (Has(returned, k) /\ returned[k].n >= 1)
            => /\ Corners(k[1], k[2]) \subseteq DOMAIN grad
               /\ cache[k] = NoiseOf(grad, k[1], k[2])

\* The cache holds a non-zero entry computed since the last clearGradients
\* beside an older one whose corners are stored again, with other gradients.
C27_Witness ==
    \E k, old \in DOMAIN cache :
        /\ Has(returned, k) /\ returned[k].n >= 1 /\ cache[k] # 0
        /\ ~Has(returned, old)
        /\ Corners(old[1], old[2]) \subseteq DOMAIN grad
        /\ cache[old] # NoiseOf(grad, old[1], old[2])

\* --------------------------------------------------------------- C29
\* C29: whatever the gradients are, get(ix, iy) at a lattice point returns
\* 0, on a miss and on a hit.
C29_ZeroOnLattice ==
    (lastOp.op = "get" /\ lastOp.args[1] % Scale = 0
                       /\ lastOp.args[2] % Scale = 0)
        => ret = 0

\* get computed the value at the lattice point (-1, 0), creating two of
\* its corners and finding two stored, with different gradients at the
\* point itself and at its right neighbour.
C29_Witness ==
    /\ lastOp.op = "get" /\ ~lastOp.hit /\ lastOp.args = <<-Scale, 0>>
    /\ Len(lastOp.made) = 2
    /\ grad[<<-1, 0>>] # grad[<<0, 0>>]
    /\ ret = 0

\* --------------------------------------------------------------- C28
\* C28 as stated: a get(x, y) right after precomputeGradients(xMin, xMax,
\* yMin, yMax) with xMin <= xMax, yMin <= yMax, xMin <= x <= xMax and
\* yMin <= y <= yMax finds its four corner gradients stored, creates no
\* gradient and draws no random number.
C28_AsStated ==
    [][ ( /\ IsGet
          /\ lastOp.op = "precompute"
          /\ lastOp.args[1] <= lastOp.args[2]
          /\ lastOp.args[3] <= lastOp.args[4]
          /\ lastOp.args[1] <= lastOp'.args[1]
          /\ lastOp'.args[1] <= lastOp.args[2]
          /\ lastOp.args[3] <= lastOp'.args[2]
          /\ lastOp'.args[2] <= lastOp.args[4] )
            => /\ Corners(lastOp'.args[1], lastOp'.args[2]) \subseteq DOMAIN grad
               /\ lastOp'.made = <<>>
               /\ drawn' = drawn ]_vars

\* --------------------------------------------------------------- C30
\* The corners of the query (x, y) in the order (xf, yf), (xf + 1, yf),
\* (xf, yf + 1), (xf + 1, yf + 1).
CornerOrder(x, y) ==
    << <<FloorOf(x), FloorOf(y)>>,     <<FloorOf(x) + 1, FloorOf(y)>>,
       <<FloorOf(x), FloorOf(y) + 1>>, <<FloorOf(x) + 1, FloorOf(y) + 1>> >>

\* The lattice points of the rectangle of precomputeGradients, x ascending
\* and, for each x, y ascending.
XMajorOrder(xMin, xMax, yMin, yMax) ==
    LET xLo == FloorOf(xMin)
        yLo == FloorOf(yMin)
        nx  == CeilOf(xMax) - xLo + 1
        ny  == CeilOf(yMax) - yLo + 1
    IN  IF nx <= 0 \/ ny <= 0
        THEN <<>>
        ELSE [i \in 1 .. (nx * ny) |->
                 <<xLo + ((i - 1) \div ny), yLo + ((i - 1) % ny)>>]

\* The gradient made of draw number i of the random source.
GradientOfDraw(i) == UnitVectors[rnd[i % Period] + 1]

\* The call created the absent points of the sequence order, in that
\* order, each from the next draw of the random source, and drew nothing
\* else.
DrawsInOrder(order) ==
    LET absent == SelectSeq(order, LAMBDA p : ~Has(grad, p)) IN
    /\ lastOp'.made = absent
    /\ drawn' = drawn + Len(absent)
    /\ \A i \in 1 .. Len(absent) :
           grad'[absent[i]] = GradientOfDraw(drawn + i - 1)

\* C30: a created gradient takes one draw and a present one none; a get
\* that misses gives its draws to its absent corners in the order (xf, yf),
\* (xf + 1, yf), (xf, yf + 1), (xf + 1, yf + 1), a get that hits draws
\* nothing, and precomputeGradients gives its draws to the absent points of
\* its rectangle with x ascending and, for each x, y ascending.
C30_DrawOrder ==
    [][ /\ (IsGet /\ lastOp'.hit) => DrawsInOrder(<<>>)
        /\ (IsGet /\ ~lastOp'.hit)
             => DrawsInOrder(CornerOrder(lastOp'.args[1], lastOp'.args[2]))
        /\ IsPrecompute
             => DrawsInOrder(XMajorOrder(lastOp'.args[1], lastOp'.args[2],
                                         lastOp'.args[3], lastOp'.args[4]))
      ]_vars

\* A get missed inside a cell of which some corners were stored and created
\* the others, two of them with different gradients.
C30_Witness ==
    /\ lastOp.op = "get" /\ ~lastOp.hit /\ lastOp.prev = "precompute"
    /\ Len(lastOp.made) \in {2, 3}
    /\ grad[lastOp.made[1]] # grad[lastOp.made[2]]
    /\ lastOp.args[1] % Scale # 0

\* --------------------------------------------------------------- C24
\* The defs elements in the tree of the element n.
DefsIn(d, n) ==
    { j \in 1 .. Len(Preorder(d, <<n>>)) :
          d.nodes[Preorder(d, <<n>>)[j]].name = "defs" }

\* The methods that look for the defs element, with the argument that
\* makes create one of them.
UsesDefs(last) ==
    \/ last.op \in {"createFilter", "createGradient", "createPattern"}
    \/ last.op = "create" /\ last.args = <<"defs">>

\* C24 as stated: a createFilter, createGradient, createPattern or
\* create("defs") on an svg element that holds at most one defs element
\* leaves it with at most one, whether or not the svg is in the document.
C24_AsStated ==
    [][ ( /\ dom'.calls # dom.calls
          /\ UsesDefs(dom'.last)
          /\ dom.nodes[dom.objs[dom'.last.obj].element].name = "svg"
          /\ Cardinality(DefsIn(dom, dom.objs[dom'.last.obj].element)) <= 1 )
            => Cardinality(DefsIn(dom', dom.objs[dom'.last.obj].element)) <= 1
      ]_vars

\* --------------------------------------------------------------- C25
\* C25 as stated: the element a createFilter, createGradient or
\* createPattern on an svg S returns is a child of a defs element in the
\* tree of S, also when the document holds another svg with a defs.
C25_AsStated ==
    [][ ( /\ dom'.calls # dom.calls
          /\ dom'.last.op \in {"createFilter", "createGradient",
                               "createPattern"}
          /\ ~dom'.last.thrown )
            => LET S == dom'.objs[dom'.last.obj].element
                   made == dom'.objs[dom'.last.ret].element
               IN  \E j \in DefsIn(dom', S) :
                       \E k \in 1 .. Len(dom'.nodes[Preorder(dom', <<S>>)[j]].kids) :
                           dom'.nodes[Preorder(dom', <<S>>)[j]].kids[k] = made
      ]_vars

\* --------------------------------------------------------------- C26
\* The step is the dispatch of an event of the type at the element of the
\* object o or (pointermove) at an element below it.
Reaches(type, o) ==
    /\ dom'.calls # dom.calls
    /\ dom'.last.op = type
    /\ \E k \in 1 .. Len(Path(dom, dom'.last.args[1])) :
           /\ Path(dom, dom'.last.args[1])[k] = dom.objs[o].element
           /\ type = "pointerleave" => k = 1

\* The invocations of the callback during the event of the step, as a
\* listener of the element at (of any element when at is 0).
Invocations(callback, at) ==
    { i \in 1 .. Len(dom'.seen) :
          /\ dom'.seen[i].callback = callback
          /\ at # 0 => dom'.seen[i].at = at }

\* The cursor the event of the step yields under the CTM it came with: the
\* least integers not below the client coordinates moved back by the CTM.
CursorOf(args) ==
    << CHOOSE c \in -8 .. 8 :
           2 * c >= args[2] - args[4][1] /\ 2 * (c - 1) < args[2] - args[4][1],
       CHOOSE c \in -8 .. 8 :
           2 * c >= args[3] - args[4][2] /\ 2 * (c - 1) < args[3] - args[4][2] >>

\* C26 as stated: after trackCursor(callback) on an svg, in every
\* pointermove event that reaches the svg, touchAction is "none" and the
\* cursor of the object has been set when the callback is invoked; every
\* pointerleave at the svg sets touchAction to "auto".
C26_AsStated ==
    [][ \A t \in dom.tracked :
          /\ Reaches("pointermove", t.obj)
               => \A i \in Invocations(t.callback, 0) :
                      /\ dom'.seen[i].touchAction = "none"
                      /\ t.obj \in dom'.seen[i].written
          /\ Reaches("pointerleave", t.obj)
               => dom'.nodes[dom.objs[t.obj].element].touchAction = "auto"
      ]_vars

\* C26 as amended: after trackCursor(callback) on an svg, every pointermove
\* event that reaches the svg leaves touchAction at "none", and every
\* pointerleave at the svg leaves it at "auto".  If the callback was not a
\* pointermove listener of the svg before the call, then whenever it is
\* invoked as a listener of the svg, touchAction is "none" and, if the svg
\* has a screen CTM, cursorX and cursorY are already the ones of this
\* event; if it has none they are what they were before the event.
C26_EventOrder ==
    [][ \A t \in dom.tracked :
          LET svg == dom.objs[t.obj].element IN
          /\ Reaches("pointermove", t.obj)
               => /\ dom'.nodes[svg].touchAction = "none"
                  /\ t.fresh =>
                       \A i \in Invocations(t.callback, svg) :
                           /\ dom'.seen[i].touchAction = "none"
                           /\ IF Rendered(dom, svg)
                              THEN /\ t.obj \in dom'.seen[i].written
                                   /\ dom'.seen[i].cursors[t.obj]
                                          = CursorOf(dom'.last.args)
                              ELSE dom'.seen[i].cursors[t.obj]
                                       = dom.objs[t.obj].cursor
                  /\ (t.fresh /\ t.callback # "null")
                       => Invocations(t.callback, svg) # {}
          /\ Reaches("pointerleave", t.obj)
               => dom'.nodes[svg].touchAction = "auto"
      ]_vars

\* After trackCursor(cb) on an svg in the document, a pointermove at the
\* rect below it, with the pointer between two units and the svg off the
\* origin, invoked cb once, after the cursor was set.
C26_Witness ==
    /\ dom.last.op = "pointermove"
    /\ dom.last.args = <<2, 5, 1, <<1, 2>>>>
    /\ [obj |-> 1, callback |-> "cb", fresh |-> TRUE] \in dom.tracked
    /\ Len(dom.seen) = 1
    /\ dom.seen[1].written = {1}
    /\ dom.objs[1].cursor = <<2, 0>>
    /\ dom.nodes[1].touchAction = "none"

\* --------------------------------------------------------------- C21
\* C21: the path createCurve(points, curveFactor) returns, for n >= 1
\* points, has as data one M command at points[0] and then n - 1 C
\* segments, the k-th ending at points[k]; with curveFactor = 0 the control
\* points of a segment are its start point and its end point.
C21_CurveShape ==
    (dom.last.op = "createCurve")
        => LET points == dom.last.args[1]
               n == Len(points)
               path == dom.nodes[dom.objs[dom.last.ret].element]
               data == path.attrs["d"]
               P(k) == <<6 * points[k + 1][1], 6 * points[k + 1][2]>>
           IN  /\ path.name = "path"
               /\ Len(data) = n
               /\ data[1] = <<"M">> \o P(0)
               /\ \A k \in 1 .. (n - 1) :
                     /\ Len(data[k + 1]) = 7
                     /\ data[k + 1][1] = "C"
                     /\ <<data[k + 1][6], data[k + 1][7]>> = P(k)
                     /\ (Len(dom.last.args) = 2 /\ dom.last.args[2] = 0)
                          => /\ <<data[k + 1][2], data[k + 1][3]>> = P(k - 1)
                             /\ <<data[k + 1][4], data[k + 1][5]>> = P(k)

\* createCurve ran with four points and curveFactor = 0.
C21_Witness ==
    /\ dom.last.op = "createCurve"
    /\ Len(dom.last.args) = 2 /\ dom.last.args[2] = 0
    /\ Len(dom.last.args[1]) = 4
    /\ Len(dom.nodes[dom.objs[dom.last.ret].element].attrs["d"]) = 4

\* --------------------------------------------------------------- C22
\* C22 as stated: for min <= max (max taken as 1 when it is left out),
\* Gen.random(min, max, float) returns a number from min to max, whether it
\* is rounded or not; Gen.random(array) returns an element of the array.
C22_AsStated ==
    /\ ( /\ fp.op = "random"
         /\ fp.args[1] <= (IF Len(fp.args) >= 2 THEN fp.args[2] ELSE Grain) )
          => /\ fp.args[1] * Grain <= fp.v
             /\ fp.v <= (IF Len(fp.args) >= 2 THEN fp.args[2] ELSE Grain) * Grain
    /\ (fp.op = "randomItem")
          => \E i \in 1 .. Len(fp.args[1]) : fp.v = fp.args[1][i]

====
